---------------------------- MODULE Spec2Model ----------------------------
(***************************************************************************)
(* Song catalog manager (gestion-canciones): the orchestrator SongManager, *)
(* the FirebaseManager adapter in front of the remote 'songs' collection,  *)
(* the FilterManager and the CSV import loop of CSVImporter.               *)
(*                                                                         *)
(* JavaScript objects are records whose DOMAIN is the set of properties    *)
(* the object has; strings that are searched or compared case-insensitively*)
(* are sequences of one-character strings; identifiers and timestamps are  *)
(* tagged tuples.  An async handler is one action per segment between two  *)
(* awaits: the segment that issues a Remote Store call, and the segment    *)
(* that runs when the call settles (resolved or rejected).                 *)
(***************************************************************************)
EXTENDS Integers, Sequences, FiniteSets, TLC

VARIABLES
    isInitialized,   \* FirebaseManager.isInitialized
    store,           \* remote collection 'songs': document id -> document data
    nextId,          \* number of the next document the store creates
    localStorage,    \* legacy list under localStorage key 'songs'
    fb,              \* a direct call of an adapter method and its outcome
    songs,           \* SongManager.songs
    filteredSongs,   \* SongManager.filteredSongs
    sameArray,       \* filteredSongs and songs are one and the same array object
    elementOf,       \* for each position of filteredSongs, the position of songs that
                     \* holds the very same object, or 0 when songs does not hold it
    cachedArtists,   \* SongManager.cachedArtists
    currentEditId,   \* SongManager.currentEditId
    songToDelete,    \* id of SongManager.songToDelete, or Null
    modalOpen,       \* the song form modal (songModal) is shown
    deleteModalOpen, \* the delete confirmation modal (deleteModal) is shown
    query,           \* DOM filter controls: search box, checked types and states
    searchTimer,     \* the debounce timer of the search box is pending
    initPc,          \* position of initializeApp / loadInitialData
    submit,          \* handleSubmit suspended on its Remote Store call
    del,             \* confirmDelete suspended on its Remote Store call
    comment,         \* updateComment calls suspended on their Remote Store call
    imp,             \* handleFileImport: position, remaining candidates, counts
    loading,         \* buttons (and the table) currently in the loading state
    report,          \* the last thing shown to the user (alert or indicator)
    ops,             \* number of user events so far
    csvFile          \* text of the CSV file at hand (the one downloadCSV produced
                     \* last, or one the user holds), or Null

vars == <<isInitialized, store, nextId, localStorage, fb, songs,
          filteredSongs, sameArray, elementOf, cachedArtists, currentEditId, songToDelete,
          modalOpen, deleteModalOpen, query, searchTimer, initPc, submit, del,
          comment, imp, loading, report, ops, csvFile>>

\* the Remote Store and what the adapter holds
remoteVars == <<store, nextId>>
\* the mirror
mirrorVars == <<songs, filteredSongs, sameArray, elementOf>>
\* the modals and what they edit
modalVars == <<currentEditId, songToDelete, modalOpen, deleteModalOpen>>
\* the suspended handlers
handlerVars == <<initPc, submit, del, comment, imp>>

---------------------------------------------------------------------------
(* Bounds of the model *)

\* user events in one behaviour that open a modal, submit a form, confirm a
\* delete, edit a comment, choose a file or change the filter controls
MaxOps == 3
\* updateComment calls that may be suspended at the same time
MaxPendingComments == 1

---------------------------------------------------------------------------
(* Values *)

Null == <<"null">>
Undefined == <<"undefined">>
DocId(n) == <<"doc", n>>
LocalId(n) == <<"local", n>>
ServerTimestamp == <<"serverTimestamp">>
Time(n) == <<"t", n>>

States == {"Aprobado", "Por aprobar", "En grabación", "Listo", "Rechazado"}
Types == {"Lento", "Movido"}

\* String.prototype.toLowerCase on the letters the model uses
LowerChar(c) ==
    CASE c = "A" -> "a"
      [] c = "B" -> "b"
      [] c = "C" -> "c"
      [] c = "D" -> "d"
      [] OTHER -> c

toLowerCase(s) == [i \in DOMAIN s |-> LowerChar(s[i])]

\* String.prototype.includes
includes(s, sub) ==
    \E i \in 0..(Len(s) - Len(sub)) : SubSeq(s, i + 1, i + Len(sub)) = sub

\* property read: obj.f, undefined when the object has no such property
Get(obj, f) == IF f \in DOMAIN obj THEN obj[f] ELSE Undefined

\* a lookup in an object literal by a name the literal does not have finds
\* the properties every object inherits from Object.prototype, such as the
\* functions toString and constructor
InheritedProperties ==
    { [key |-> <<"t", "o", "S", "t", "r", "i", "n", "g">>,
       value |-> "function toString"],
      [key |-> <<"c", "o", "n", "s", "t", "r", "u", "c", "t", "o", "r">>,
       value |-> "function Object"] }

Inherits(name) == \E p \in InheritedProperties : p.key = name
Inherited(name) == (CHOOSE p \in InheritedProperties : p.key = name).value

\* { ...a, ...b }
Spread(a, b) == [f \in DOMAIN a \cup DOMAIN b |-> IF f \in DOMAIN b THEN b[f] ELSE a[f]]

\* const { id, ...songWithoutId } = song
WithoutId(song) == [f \in DOMAIN song \ {"id"} |-> song[f]]

\* Array.prototype.findIndex on the id property; 0 stands for -1 (not found)
findIndex(list, id) ==
    IF \E i \in DOMAIN list : Get(list[i], "id") = id
    THEN CHOOSE i \in DOMAIN list :
            /\ Get(list[i], "id") = id
            /\ \A j \in DOMAIN list : Get(list[j], "id") = id => i <= j
    ELSE 0

\* list[index] = value; an index of -1 sets a property named "-1" and
\* leaves the elements of the array as they are
SetAt(list, index, value) ==
    IF index = 0 THEN list ELSE [list EXCEPT ![index] = value]

Ids(list) == {Get(list[i], "id") : i \in DOMAIN list}

---------------------------------------------------------------------------
(* Inputs the model draws from *)

\* what the user may have typed into the song form when it is submitted
FormInputs ==
    { [artistName |-> <<"A", "b">>, songName |-> <<"c">>, youtubeLink |-> <<>>,
       state |-> "Aprobado", type |-> "Lento"],
      [artistName |-> <<"d">>, songName |-> <<"c">>, youtubeLink |-> <<"u">>,
       state |-> "Listo", type |-> "Movido"] }

\* what the user may have typed into a comment input or the search box
CommentInputs == { <<>>, <<"B">> }
SearchInputs == { <<>>, <<"B">> }

\* the checkboxes of the two filter dropdowns the model toggles
TypeCheckboxes == {"Movido"}
StateCheckboxes == {"Aprobado"}

\* documents the remote collection may hold when the page is opened
InitialStore ==
    (DocId(1) :> [artistName |-> <<"A", "b">>, songName |-> <<"C", "d">>,
                  youtubeLink |-> <<"u">>, state |-> "Aprobado", type |-> "Lento",
                  comments |-> <<"b">>, createdAt |-> Time(1), updatedAt |-> Time(1)])
    @@
    (DocId(2) :> [artistName |-> <<"c">>, songName |-> <<"d">>,
                  youtubeLink |-> <<>>, state |-> "Por aprobar", type |-> "Movido",
                  createdAt |-> Time(2), updatedAt |-> Time(2)])

\* a draft as parseCSV builds it: a locally generated id and the six fields
Draft(n, artist, name, st, ty) ==
    [id |-> LocalId(n), artistName |-> artist, songName |-> name, youtubeLink |-> <<>>,
     state |-> st, type |-> ty, comments |-> <<>>]

\* the files the user may choose: name ends in .csv or not, FileReader reads
\* it or fails, and the drafts parseCSV returns for its text
CsvFiles ==
    { [csv |-> FALSE, readable |-> TRUE, drafts |-> <<>>],
      [csv |-> TRUE, readable |-> FALSE, drafts |-> <<>>],
      [csv |-> TRUE, readable |-> TRUE, drafts |-> <<>>],
      [csv |-> TRUE, readable |-> TRUE,
       drafts |-> << Draft(1, <<"a", "b">>, <<"c", "D">>, "Aprobado", "Lento") >>],
      [csv |-> TRUE, readable |-> TRUE,
       drafts |-> << Draft(1, <<"a", "b">>, <<"c", "D">>, "Aprobado", "Lento"),
                     Draft(2, <<"d">>, <<"a">>, "Listo", "Movido"),
                     Draft(3, <<"d">>, <<"a">>, "Listo", "Movido") >>] }

\* the legacy list a browser may still hold under localStorage key 'songs':
\* none, as many songs as the collection holds, or more
LegacyLists ==
    { <<>>,
      << [id |-> LocalId(8), artistName |-> <<"d">>, songName |-> <<"b">>,
          youtubeLink |-> <<>>, state |-> "Listo", type |-> "Lento"],
         [id |-> LocalId(9), artistName |-> <<"c">>, songName |-> <<"d">>,
          youtubeLink |-> <<>>, state |-> "Por aprobar", type |-> "Movido"] >>,
      << [id |-> LocalId(7), artistName |-> <<"b">>, songName |-> <<"a">>,
          youtubeLink |-> <<>>, state |-> "Aprobado", type |-> "Lento"],
         [id |-> LocalId(8), artistName |-> <<"d">>, songName |-> <<"b">>,
          youtubeLink |-> <<>>, state |-> "Listo", type |-> "Lento"],
         [id |-> LocalId(9), artistName |-> <<"c">>, songName |-> <<"d">>,
          youtubeLink |-> <<>>, state |-> "Por aprobar", type |-> "Movido"] >> }

---------------------------------------------------------------------------
(* Remote collection (Firestore) as the adapter uses it *)

\* the server replaces the serverTimestamp() sentinel by its clock
Resolve(data, now) ==
    [f \in DOMAIN data |->
        IF f \in {"createdAt", "updatedAt"} /\ data[f] = ServerTimestamp
        THEN Time(now) ELSE data[f]]

\* the collection refuses a document that holds a function as a field value
Storable(data) ==
    \A p \in InheritedProperties : data.state # p.value /\ data.type # p.value

\* collection('songs').add(data): a new document under a store-assigned id
dbAdd(st, n, data) == (DocId(n) :> Resolve(data, n)) @@ st

\* doc(id).update(data): merges data into the document, which must exist
dbUpdate(st, id, data, now) == [st EXCEPT ![id] = Spread(st[id], Resolve(data, now))]

\* doc(id).delete(): removes the document; no error when there is none
dbDelete(st, id) == [d \in DOMAIN st \ {id} |-> st[d]]

\* orderBy('createdAt', 'desc').get(): the documents that have the field,
\* latest first
RECURSIVE dbOrdered(_, _)
dbOrdered(st, ids) ==
    IF ids = {} THEN <<>>
    ELSE LET d == CHOOSE x \in ids : \A y \in ids : st[x].createdAt[2] >= st[y].createdAt[2]
         IN  <<d>> \o dbOrdered(st, ids \ {d})

dbGetOrdered(st) == dbOrdered(st, {d \in DOMAIN st : "createdAt" \in DOMAIN st[d]})

---------------------------------------------------------------------------
(* FirebaseManager *)

NotInitialized == "Firebase no está inicializado"
RemoteError == "remote error"

\* the check each method makes before it touches the collection
loadSongsReady == isInitialized
addSongReady == isInitialized
updateSongReady == isInitialized
deleteSongReady == isInitialized
\* a migrateFromLocalStorage without the readiness check of its first lines
migrateUnchecked == TRUE
migrateReady == isInitialized

\* loadSongs: one object per document of the snapshot, { id: doc.id, ...doc.data() }
loadSongsResult(st) ==
    LET order == dbGetOrdered(st)
    IN  [i \in DOMAIN order |-> Spread([id |-> order[i]], st[order[i]])]

\* an addSong that sends the draft as it came, the client's id with it
addSongDataKeepsId(song) ==
    Spread(song, [createdAt |-> ServerTimestamp, updatedAt |-> ServerTimestamp])

\* an addSong that returns { id: docRef.id, ...song }: the client's id wins
addSongResultKeepsId(song, docId) == Spread([id |-> docId], song)

\* addSong: the data it sends, and the object it returns for the new document
addSongData(song) ==
    Spread(WithoutId(song),
           [createdAt |-> ServerTimestamp, updatedAt |-> ServerTimestamp])

addSongResult(song, docId) == Spread(WithoutId(song), [id |-> docId])

\* updateSong: the data it sends
updateSongData(updatedSong) == Spread(updatedSong, [updatedAt |-> ServerTimestamp])


---------------------------------------------------------------------------
(* FilterManager *)

\* a string that is neither undefined nor empty
Truthy(v) == v # Undefined /\ v # <<>>

\* a predicate that searches the two names only, never the comments
matchesFilterNamesOnly(song, searchInput, selectedTypes, selectedStates) ==
    /\ \/ searchInput = <<>>
       \/ includes(toLowerCase(song.songName), searchInput)
       \/ includes(toLowerCase(song.artistName), searchInput)
    /\ selectedTypes = {} \/ song.type \in selectedTypes
    /\ selectedStates = {} \/ song.state \in selectedStates

\* the predicate of applyFilters for one song; searchInput is already lowercased
matchesFilter(song, searchInput, selectedTypes, selectedStates) ==
    LET matchesSearch ==
            \/ searchInput = <<>>
            \/ includes(toLowerCase(song.songName), searchInput)
            \/ includes(toLowerCase(song.artistName), searchInput)
            \/ /\ Truthy(Get(song, "comments"))
               /\ includes(toLowerCase(Get(song, "comments")), searchInput)
        matchesType == selectedTypes = {} \/ song.type \in selectedTypes
        matchesState == selectedStates = {} \/ song.state \in selectedStates
    IN  matchesSearch /\ matchesType /\ matchesState

\* a filter that returns the songs it keeps last first
filterSongsReversed(list, q) ==
    LET kept == SelectSeq(list, LAMBDA song :
                    matchesFilter(song, toLowerCase(q.search), q.types, q.states))
    IN  [i \in 1..Len(kept) |-> kept[Len(kept) + 1 - i]]

RECURSIVE filterSongs(_, _)
filterSongs(list, q) ==
    IF list = <<>> THEN <<>>
    ELSE IF matchesFilter(Head(list), toLowerCase(q.search), q.types, q.states)
         THEN <<Head(list)>> \o filterSongs(Tail(list), q)
         ELSE filterSongs(Tail(list), q)

\* the positions of a list, and those of the songs a filter keeps: filter
\* puts the kept objects themselves into the new array
Positions(list) == [i \in DOMAIN list |-> i]

keptPositions(list, q) ==
    SelectSeq(Positions(list), LAMBDA i :
        matchesFilter(list[i], toLowerCase(q.search), q.types, q.states))

\* applyFilters: filteredSongs becomes a new array, the filter of list
\* under the filter controls q
applyFilters(list, q) ==
    /\ filteredSongs' = filterSongs(list, q)
    /\ sameArray' = FALSE
    /\ elementOf' = keptPositions(list, q)

NoQuery == [search |-> <<>>, types |-> {}, states |-> {}]

---------------------------------------------------------------------------
(* SongManager: state after construction *)

NoSubmit == [pc |-> "idle"]
NoDelete == [pc |-> "idle"]
NoImport == [pc |-> "idle"]
NoCall == [pc |-> "idle"]
\* cachedArtists is undefined or null: there is no artist list
NoArtists == [built |-> FALSE]
Report(kind, err, n) == [kind |-> kind, err |-> err, n |-> n]
NoReport == Report("none", "none", 0)

InitialNextId == Cardinality(DOMAIN InitialStore) + 1

Init ==
    /\ isInitialized \in BOOLEAN
    /\ store = InitialStore
    /\ nextId = InitialNextId
    /\ localStorage \in LegacyLists
    /\ fb = NoCall
    /\ songs = <<>>
    /\ filteredSongs = <<>>
    /\ sameArray = FALSE
    /\ elementOf = <<>>
    /\ cachedArtists = NoArtists
    /\ currentEditId = Null
    /\ songToDelete = Null
    /\ modalOpen = FALSE
    /\ deleteModalOpen = FALSE
    /\ query = NoQuery
    /\ searchTimer = FALSE
    /\ initPc = "waitInit"
    /\ submit = NoSubmit
    /\ del = NoDelete
    /\ comment = {}
    /\ imp = NoImport
    /\ loading = {"table"}
    /\ report = NoReport
    /\ ops = 0
    /\ csvFile = Null

\* LoadingUtils.showButtonLoading and hideButtonLoading on the set of the
\* buttons in the loading state
showButtonLoading(buttons, buttonId) == buttons \cup {buttonId}
\* a hideButtonLoading that leaves the button as it is
hideButtonLoadingLeaves(buttons, buttonId) == buttons
hideButtonLoading(buttons, buttonId) == buttons \ {buttonId}

\* a user event that counts against MaxOps (closing a modal does not)
UserEvent == ops < MaxOps /\ ops' = ops + 1

\* the page behind the modals can be used
PageUsable == ~modalOpen /\ ~deleteModalOpen

---------------------------------------------------------------------------
(* SongManager.initializeApp / loadInitialData *)

\* the catch block of loadInitialData, then hideTableLoading
LoadInitialDataFailed(err) ==
    /\ songs' = <<>>
    /\ filteredSongs' = <<>>
    /\ sameArray' = FALSE
    /\ elementOf' = <<>>
    /\ report' = Report("loadError", err, 0)
    /\ initPc' = "done"
    /\ loading' = loading \ {"table"}

\* waitForFirebaseInit has resolved: the legacy key is removed, then
\* migrateFromLocalStorage reads it, then loadSongs is called
LoadInitialDataReady ==
    /\ initPc = "waitInit"
    /\ isInitialized
    /\ localStorage' = <<>>
    /\ IF ~migrateReady
       THEN LoadInitialDataFailed(NotInitialized)
       ELSE IF Len(localStorage') # 0
       THEN /\ initPc' = "migrate"
            /\ UNCHANGED <<songs, filteredSongs, sameArray, elementOf, report, loading>>
       ELSE IF ~loadSongsReady
       THEN LoadInitialDataFailed(NotInitialized)
       ELSE /\ initPc' = "loadSongs"
            /\ UNCHANGED <<songs, filteredSongs, sameArray, elementOf, report, loading>>
    /\ UNCHANGED <<isInitialized, csvFile, store, nextId, fb, cachedArtists,
                   currentEditId, songToDelete, modalOpen, deleteModalOpen, query,
                   searchTimer, submit, del, comment, imp, ops>>

\* loadSongs resolves: songs and filteredSongs become the loaded array
LoadInitialDataDone ==
    /\ initPc = "loadSongs"
    /\ songs' = loadSongsResult(store)
    /\ filteredSongs' = songs'
    /\ sameArray' = TRUE
    /\ elementOf' = Positions(songs')
    /\ initPc' = "done"
    /\ loading' = loading \ {"table"}
    /\ UNCHANGED <<isInitialized, csvFile, store, nextId, localStorage, fb,
                   cachedArtists, currentEditId, songToDelete, modalOpen,
                   deleteModalOpen, query, searchTimer, submit, del, comment, imp,
                   report, ops>>

\* loadSongs rejects
LoadInitialDataError ==
    /\ initPc = "loadSongs"
    /\ LoadInitialDataFailed(RemoteError)
    /\ UNCHANGED <<isInitialized, csvFile, store, nextId, localStorage, fb,
                   cachedArtists, currentEditId, songToDelete, modalOpen,
                   deleteModalOpen, query, searchTimer, submit, del, comment, imp,
                   ops>>

---------------------------------------------------------------------------
(* SongManager: the modals *)

\* addSongBtn: showModal()
ShowModalAdd ==
    /\ PageUsable
    /\ UserEvent
    /\ currentEditId' = Null
    /\ modalOpen' = TRUE
    /\ UNCHANGED <<isInitialized, csvFile, store, nextId, localStorage, fb,
                   songs, filteredSongs, sameArray, elementOf, cachedArtists, songToDelete,
                   deleteModalOpen, query, searchTimer, initPc, submit, del,
                   comment, imp, loading, report>>

\* the edit button of a row of the table: editSong(song) -> showModal(song)
EditSong(i) ==
    /\ PageUsable
    /\ UserEvent
    /\ currentEditId' = Get(filteredSongs[i], "id")
    /\ modalOpen' = TRUE
    /\ UNCHANGED <<isInitialized, csvFile, store, nextId, localStorage, fb,
                   songs, filteredSongs, sameArray, elementOf, cachedArtists, songToDelete,
                   deleteModalOpen, query, searchTimer, initPc, submit, del,
                   comment, imp, loading, report>>

\* hideModal
hideModal ==
    /\ modalOpen' = FALSE
    /\ currentEditId' = Null

\* cancelBtn
CancelModal ==
    /\ modalOpen
    /\ hideModal
    /\ UNCHANGED <<isInitialized, csvFile, store, nextId, localStorage, fb,
                   songs, filteredSongs, sameArray, elementOf, cachedArtists, songToDelete,
                   deleteModalOpen, query, searchTimer, initPc, submit, del,
                   comment, imp, loading, report, ops>>

\* the delete button of a row of the table: deleteSong(song) -> showDeleteModal(song)
DeleteSong(i) ==
    /\ PageUsable
    /\ UserEvent
    /\ songToDelete' = Get(filteredSongs[i], "id")
    /\ deleteModalOpen' = TRUE
    /\ UNCHANGED <<isInitialized, csvFile, store, nextId, localStorage, fb,
                   songs, filteredSongs, sameArray, elementOf, cachedArtists, currentEditId,
                   modalOpen, query, searchTimer, initPc, submit, del, comment,
                   imp, loading, report>>

\* hideDeleteModal
hideDeleteModal ==
    /\ deleteModalOpen' = FALSE
    /\ songToDelete' = Null

\* deleteCancelBtn
CancelDeleteModal ==
    /\ deleteModalOpen
    /\ hideDeleteModal
    /\ UNCHANGED <<isInitialized, csvFile, store, nextId, localStorage, fb,
                   songs, filteredSongs, sameArray, elementOf, cachedArtists, currentEditId,
                   modalOpen, query, searchTimer, initPc, submit, del, comment,
                   imp, loading, report, ops>>

\* input in the artist field of the form (two characters or more):
\* handleArtistInput builds the artist list when there is none
uniqueArtists(list) ==
    LET first(i) == \A j \in 1..(i - 1) : list[j].artistName # list[i].artistName
        RECURSIVE build(_)
        build(i) == IF i > Len(list) THEN <<>>
                    ELSE IF first(i) THEN <<list[i].artistName>> \o build(i + 1)
                    ELSE build(i + 1)
    IN  build(1)

HandleArtistInput ==
    /\ modalOpen
    /\ UserEvent
    /\ cachedArtists' = IF ~cachedArtists.built
                        THEN [built |-> TRUE, artists |-> uniqueArtists(songs)]
                        ELSE cachedArtists
    /\ UNCHANGED <<isInitialized, csvFile, store, nextId, localStorage, fb,
                   songs, filteredSongs, sameArray, elementOf, currentEditId, songToDelete,
                   modalOpen, deleteModalOpen, query, searchTimer, initPc, submit,
                   del, comment, imp, loading, report>>

\* invalidateArtistsCache
invalidateArtistsCache == cachedArtists' = NoArtists

---------------------------------------------------------------------------
(* SongManager.handleSubmit *)

\* the catch and finally blocks of handleSubmit
HandleSubmitCatch(err) ==
    /\ report' = Report("saveError", err, 0)
    /\ loading' = loading \ {"saveSongBtn"}
    /\ submit' = NoSubmit

\* the form is submitted: the Remote Store call is issued, or it throws
\* when the adapter is not ready
HandleSubmit(formData) ==
    /\ modalOpen
    /\ "saveSongBtn" \notin loading
    /\ UserEvent
    /\ IF currentEditId # Null
       THEN IF ~updateSongReady
            THEN /\ HandleSubmitCatch(NotInitialized)
            ELSE /\ submit' = [pc |-> "update", id |-> currentEditId,
                               formData |-> formData]
                 /\ loading' = loading \cup {"saveSongBtn"}
                 /\ UNCHANGED report
       ELSE IF ~addSongReady
            THEN /\ HandleSubmitCatch(NotInitialized)
            ELSE /\ submit' = [pc |-> "add", id |-> Null, formData |-> formData]
                 /\ loading' = loading \cup {"saveSongBtn"}
                 /\ UNCHANGED report
    /\ UNCHANGED <<isInitialized, csvFile, store, nextId, localStorage, fb, songs,
                   filteredSongs, sameArray, elementOf, cachedArtists, currentEditId,
                   songToDelete, modalOpen, deleteModalOpen, query, searchTimer,
                   initPc, del, comment, imp>>

\* what handleSubmit does once its Remote Store call has resolved
HandleSubmitThen ==
    /\ invalidateArtistsCache
    /\ applyFilters(songs', query)
    /\ hideModal
    /\ loading' = loading \ {"saveSongBtn"}
    /\ submit' = NoSubmit

\* updateSong resolves: the entry found under the current currentEditId
\* is replaced by the form data
HandleSubmitUpdated ==
    /\ submit.pc = "update"
    /\ submit.id \in DOMAIN store
    /\ store' = dbUpdate(store, submit.id, updateSongData(submit.formData), nextId)
    /\ LET index == findIndex(songs, currentEditId)
       IN  songs' = SetAt(songs, index, Spread(submit.formData, [id |-> currentEditId]))
    /\ HandleSubmitThen
    /\ UNCHANGED <<isInitialized, csvFile, nextId, localStorage, fb,
                   songToDelete, deleteModalOpen, query, searchTimer, initPc, del,
                   comment, imp, report, ops>>

\* addSong resolves: the returned song is pushed
HandleSubmitAdded ==
    /\ submit.pc = "add"
    /\ store' = dbAdd(store, nextId, addSongData(submit.formData))
    /\ nextId' = nextId + 1
    /\ songs' = Append(songs, addSongResult(submit.formData, DocId(nextId)))
    /\ HandleSubmitThen
    /\ UNCHANGED <<isInitialized, csvFile, localStorage, fb, songToDelete,
                   deleteModalOpen, query, searchTimer, initPc, del, comment, imp,
                   report, ops>>

\* a handleSubmit that puts the form data into songs although the call failed
HandleSubmitRejectedOptimistic ==
    /\ submit.pc \in {"update", "add"}
    /\ songs' = Append(songs, Spread(submit.formData, [id |-> DocId(nextId)]))
    /\ filteredSongs' = IF sameArray THEN songs' ELSE filteredSongs
    /\ elementOf' = IF sameArray THEN Positions(songs') ELSE elementOf
    /\ HandleSubmitCatch(RemoteError)
    /\ UNCHANGED <<isInitialized, csvFile, store, nextId, localStorage, fb,
                   sameArray, cachedArtists, currentEditId,
                   songToDelete, modalOpen, deleteModalOpen, query, searchTimer,
                   initPc, del, comment, imp, ops>>

\* the Remote Store call of handleSubmit rejects
HandleSubmitRejected ==
    /\ submit.pc \in {"update", "add"}
    /\ HandleSubmitCatch(RemoteError)
    /\ UNCHANGED <<isInitialized, csvFile, store, nextId, localStorage, fb,
                   songs, filteredSongs, sameArray, elementOf, cachedArtists, currentEditId,
                   songToDelete, modalOpen, deleteModalOpen, query, searchTimer,
                   initPc, del, comment, imp, ops>>

---------------------------------------------------------------------------
(* SongManager.confirmDelete *)

\* the catch and finally blocks of confirmDelete
ConfirmDeleteCatch(err) ==
    /\ report' = Report("deleteError", err, 0)
    /\ loading' = loading \ {"deleteConfirmBtn"}
    /\ del' = NoDelete

\* songs.filter(song => song.id !== this.songToDelete.id)
RECURSIVE removeById(_, _)
removeById(list, id) ==
    IF list = <<>> THEN <<>>
    ELSE IF Get(Head(list), "id") # id THEN <<Head(list)>> \o removeById(Tail(list), id)
    ELSE removeById(Tail(list), id)

\* deleteConfirmBtn
ConfirmDelete ==
    /\ deleteModalOpen
    /\ "deleteConfirmBtn" \notin loading
    /\ songToDelete # Null
    /\ UserEvent
    /\ IF ~deleteSongReady
       THEN /\ ConfirmDeleteCatch(NotInitialized)
       ELSE /\ del' = [pc |-> "await", id |-> songToDelete]
            /\ loading' = loading \cup {"deleteConfirmBtn"}
            /\ UNCHANGED report
    /\ UNCHANGED <<isInitialized, csvFile, store, nextId, localStorage, fb, songs,
                   filteredSongs, sameArray, elementOf, cachedArtists, currentEditId,
                   songToDelete, modalOpen, deleteModalOpen, query, searchTimer,
                   initPc, submit, comment, imp>>

\* deleteSong resolves: songs is filtered by the id of the current
\* songToDelete; reading .id of null throws a TypeError into the catch block
ConfirmDeleteDeleted ==
    /\ del.pc = "await"
    /\ store' = dbDelete(store, del.id)
    /\ IF songToDelete = Null /\ songs # <<>>
       THEN /\ ConfirmDeleteCatch("TypeError")
            /\ UNCHANGED <<songs, filteredSongs, sameArray, elementOf, cachedArtists,
                           songToDelete, deleteModalOpen>>
       ELSE /\ songs' = removeById(songs, songToDelete)
            /\ invalidateArtistsCache
            /\ applyFilters(songs', query)
            /\ hideDeleteModal
            /\ loading' = loading \ {"deleteConfirmBtn"}
            /\ del' = NoDelete
            /\ UNCHANGED report
    /\ UNCHANGED <<isInitialized, csvFile, nextId, localStorage, fb,
                   currentEditId, modalOpen, query, searchTimer, initPc, submit,
                   comment, imp, ops>>

\* deleteSong rejects
ConfirmDeleteRejected ==
    /\ del.pc = "await"
    /\ ConfirmDeleteCatch(RemoteError)
    /\ UNCHANGED <<isInitialized, csvFile, store, nextId, localStorage, fb,
                   songs, filteredSongs, sameArray, elementOf, cachedArtists, currentEditId,
                   songToDelete, modalOpen, deleteModalOpen, query, searchTimer,
                   initPc, submit, comment, imp, ops>>

---------------------------------------------------------------------------
(* SongManager.updateComment *)

\* a comment input of the table loses focus with the text typed into it
UpdateComment(i, text) ==
    /\ PageUsable
    /\ UserEvent
    /\ Cardinality(comment) < MaxPendingComments
    /\ LET songId == Get(filteredSongs[i], "id")
           index == findIndex(songs, songId)
           updatedSong == Spread(songs[index], [comments |-> text])
       IN  /\ \A c \in comment : c.songId # songId
           /\ IF index = 0
              THEN UNCHANGED <<comment, report>>
              ELSE IF ~updateSongReady
              THEN /\ report' = Report("commentError", NotInitialized, 0)
                   /\ UNCHANGED <<comment>>
              ELSE /\ comment' = comment \cup
                          {[songId |-> songId, updatedSong |-> updatedSong]}
                   /\ UNCHANGED report
    /\ UNCHANGED <<isInitialized, csvFile, store, nextId, localStorage, fb, songs,
                   filteredSongs, sameArray, elementOf, cachedArtists, currentEditId,
                   songToDelete, modalOpen, deleteModalOpen, query, searchTimer,
                   initPc, submit, del, imp, loading>>

\* an updateComment that replaces the entry of songs only
UpdateCommentUpdatedSongsOnly(c) ==
    /\ c \in comment
    /\ c.songId \in DOMAIN store
    /\ store' = dbUpdate(store, c.songId, updateSongData(c.updatedSong), nextId)
    /\ songs' = SetAt(songs, findIndex(songs, c.songId), c.updatedSong)
    /\ filteredSongs' = IF sameArray THEN songs' ELSE filteredSongs
    /\ elementOf' =
          IF sameArray THEN elementOf
          ELSE [j \in DOMAIN elementOf |->
                   IF elementOf[j] = findIndex(songs, c.songId) THEN 0
                   ELSE elementOf[j]]
    /\ report' = Report("commentSuccess", "none", 0)
    /\ comment' = comment \ {c}
    /\ UNCHANGED <<isInitialized, csvFile, nextId, localStorage, fb, sameArray,
                   cachedArtists, currentEditId, songToDelete, modalOpen,
                   deleteModalOpen, query, searchTimer, initPc, submit, del, imp,
                   loading, ops>>

\* updateSong resolves: the entry of songs, and the entry of filteredSongs
\* if there is one, is replaced by the song built when the edit started
UpdateCommentUpdated(c) ==
    /\ c \in comment
    /\ c.songId \in DOMAIN store
    /\ store' = dbUpdate(store, c.songId, updateSongData(c.updatedSong), nextId)
    /\ songs' = SetAt(songs, findIndex(songs, c.songId), c.updatedSong)
    /\ filteredSongs' =
          IF sameArray THEN songs'
          ELSE SetAt(filteredSongs, findIndex(filteredSongs, c.songId), c.updatedSong)
    /\ elementOf' =
          IF sameArray THEN elementOf
          ELSE LET index == findIndex(songs, c.songId)
                   filteredIndex == findIndex(filteredSongs, c.songId)
               IN  [j \in DOMAIN elementOf |->
                       IF j = filteredIndex THEN index
                       ELSE IF elementOf[j] = index THEN 0
                       ELSE elementOf[j]]
    /\ report' = Report("commentSuccess", "none", 0)
    /\ comment' = comment \ {c}
    /\ UNCHANGED <<isInitialized, csvFile, nextId, localStorage, fb, sameArray,
                   cachedArtists, currentEditId, songToDelete, modalOpen,
                   deleteModalOpen, query, searchTimer, initPc, submit, del, imp,
                   loading, ops>>

\* updateSong rejects
UpdateCommentRejected(c) ==
    /\ c \in comment
    /\ report' = Report("commentError", RemoteError, 0)
    /\ comment' = comment \ {c}
    /\ UNCHANGED <<isInitialized, csvFile, store, nextId, localStorage, fb,
                   songs, filteredSongs, sameArray, elementOf, cachedArtists, currentEditId,
                   songToDelete, modalOpen, deleteModalOpen, query, searchTimer,
                   initPc, submit, del, imp, loading, ops>>

---------------------------------------------------------------------------
(* CSVImporter.handleFileImport *)

\* the duplicate filter: the imported songs no existing song matches in
\* artistName and songName, both compared in lower case
\* a duplicate filter that lets every candidate through
filterDuplicatesKeepsAll(importedSongs, existingSongs) == importedSongs

\* a duplicate filter that also drops a candidate an earlier candidate of
\* the same file matches
filterDuplicatesWithinBatch(importedSongs, existingSongs) ==
    LET same(a, b) == /\ toLowerCase(a.artistName) = toLowerCase(b.artistName)
                      /\ toLowerCase(a.songName) = toLowerCase(b.songName)
        kept == SelectSeq([k \in DOMAIN importedSongs |-> k],
                    LAMBDA k :
                        /\ ~\E e \in DOMAIN existingSongs :
                               same(existingSongs[e], importedSongs[k])
                        /\ ~\E j \in 1..(k - 1) : same(importedSongs[j], importedSongs[k]))
    IN  [i \in DOMAIN kept |-> importedSongs[kept[i]]]

\* a duplicate filter that compares the names as they are written
filterDuplicatesCaseSensitive(importedSongs, existingSongs) ==
    SelectSeq(importedSongs,
              LAMBDA c : ~\E k \in DOMAIN existingSongs :
                  /\ existingSongs[k].artistName = c.artistName
                  /\ existingSongs[k].songName = c.songName)

RECURSIVE filterDuplicates(_, _)
filterDuplicates(importedSongs, existingSongs) ==
    IF importedSongs = <<>> THEN <<>>
    ELSE LET importedSong == Head(importedSongs)
             exists == \E k \in DOMAIN existingSongs :
                 /\ toLowerCase(existingSongs[k].artistName)
                      = toLowerCase(importedSong.artistName)
                 /\ toLowerCase(existingSongs[k].songName)
                      = toLowerCase(importedSong.songName)
             rest == filterDuplicates(Tail(importedSongs), existingSongs)
         IN  IF exists THEN rest ELSE <<importedSong>> \o rest

\* the import ends: the finally block
ImportEnds ==
    /\ imp' = NoImport
    /\ loading' = loading \ {"importCsvBtn"}

\* after the loop: filteredSongs = songs, renderTable, the alert with newSongs.length
ImportCompletes(new) ==
    /\ filteredSongs' = songs'
    /\ sameArray' = TRUE
    /\ elementOf' = Positions(songs')
    /\ report' = Report("imported", "none", new)
    /\ ImportEnds

\* a file is chosen in csvFileInput
HandleFileImport(file) ==
    /\ PageUsable
    /\ "importCsvBtn" \notin loading
    /\ UserEvent
    /\ IF ~file.csv
       THEN /\ report' = Report("notCsv", "none", 0)
            /\ UNCHANGED <<imp, loading>>
       ELSE /\ imp' = [pc |-> "reading", file |-> file]
            /\ loading' = loading \cup {"importCsvBtn"}
            /\ UNCHANGED report
    /\ UNCHANGED <<isInitialized, csvFile, store, nextId, localStorage, fb,
                   songs, filteredSongs, sameArray, elementOf, cachedArtists, currentEditId,
                   songToDelete, modalOpen, deleteModalOpen, query, searchTimer,
                   initPc, submit, del, comment>>

\* FileReader has finished: the text is parsed, duplicates are filtered
\* out, the user confirms or declines, and the first create is issued
ImportFileRead(confirmed) ==
    /\ imp.pc = "reading"
    /\ UNCHANGED <<isInitialized, csvFile, store, nextId, localStorage, fb, songs,
                   cachedArtists, currentEditId, songToDelete, modalOpen,
                   deleteModalOpen, query, searchTimer, initPc, submit, del,
                   comment, ops>>
    /\ LET importedSongs == imp.file.drafts
           newSongs == filterDuplicates(importedSongs, songs)
           parsed == Len(importedSongs)
           new == Len(newSongs)
       IN  IF ~imp.file.readable
           THEN /\ report' = Report("importError", "read", 0)
                /\ ImportEnds
                /\ UNCHANGED <<filteredSongs, sameArray, elementOf>>
           ELSE IF parsed = 0
           THEN /\ report' = Report("noValidSongs", "none", 0)
                /\ ImportEnds
                /\ UNCHANGED <<filteredSongs, sameArray, elementOf>>
           ELSE IF new = 0
           THEN /\ report' = Report("allDuplicates", "none", 0)
                /\ ImportEnds
                /\ UNCHANGED <<filteredSongs, sameArray, elementOf>>
           ELSE IF ~confirmed
           THEN /\ report' = Report("confirm", "none", new)
                /\ ImportEnds
                /\ UNCHANGED <<filteredSongs, sameArray, elementOf>>
           ELSE IF ~addSongReady
           THEN ImportCompletes(new)
           ELSE /\ imp' = [pc |-> "adding", queue |-> newSongs, parsed |-> parsed,
                           new |-> new, skipped |-> parsed - new, ok |-> 0]
                /\ report' = Report("confirm", "none", new)
                /\ UNCHANGED <<filteredSongs, sameArray, elementOf, loading>>
\* an import loop that goes on with the last of the remaining candidates
ImportNextLastFirst(rest, ok) ==
    IF rest = <<>>
    THEN ImportCompletes(imp.new)
    ELSE /\ imp' = [imp EXCEPT !.queue = [k \in DOMAIN rest |-> rest[Len(rest) + 1 - k]],
                               !.ok = ok]
         /\ filteredSongs' = IF sameArray THEN songs' ELSE filteredSongs
         /\ elementOf' = IF sameArray THEN Positions(songs') ELSE elementOf
         /\ UNCHANGED <<sameArray, report, loading>>

\* the loop goes on with the remaining candidates, or the import completes
ImportNext(rest, ok) ==
    IF rest = <<>>
    THEN ImportCompletes(imp.new)
    ELSE /\ imp' = [imp EXCEPT !.queue = rest, !.ok = ok]
         /\ filteredSongs' = IF sameArray THEN songs' ELSE filteredSongs
         /\ elementOf' = IF sameArray THEN Positions(songs') ELSE elementOf
         /\ UNCHANGED <<sameArray, report, loading>>

\* the create of the current candidate resolves: the song is pushed
ImportSongAdded ==
    /\ imp.pc = "adding"
    /\ Storable(addSongData(Head(imp.queue)))
    /\ store' = dbAdd(store, nextId, addSongData(Head(imp.queue)))
    /\ nextId' = nextId + 1
    /\ songs' = Append(songs, addSongResult(Head(imp.queue), DocId(nextId)))
    /\ ImportNext(Tail(imp.queue), imp.ok + 1)
    /\ UNCHANGED <<isInitialized, csvFile, localStorage, fb, cachedArtists, currentEditId,
                   songToDelete, modalOpen, deleteModalOpen, query, searchTimer,
                   initPc, submit, del, comment, ops>>

\* an import loop without its inner try/catch: the first failed create ends
\* the batch in the outer catch
ImportSongRejectedAborts ==
    /\ imp.pc = "adding"
    /\ songs' = songs
    /\ report' = Report("importError", RemoteError, 0)
    /\ ImportEnds
    /\ UNCHANGED <<isInitialized, csvFile, store, nextId, localStorage, fb, filteredSongs,
                   sameArray, elementOf, cachedArtists, currentEditId, songToDelete, modalOpen,
                   deleteModalOpen, query, searchTimer, initPc, submit, del,
                   comment, ops>>

\* the create of the current candidate rejects: the error is logged
ImportSongRejected ==
    /\ imp.pc = "adding"
    /\ songs' = songs
    /\ ImportNext(Tail(imp.queue), imp.ok)
    /\ UNCHANGED <<isInitialized, csvFile, store, nextId, localStorage, fb, cachedArtists,
                   currentEditId, songToDelete, modalOpen, deleteModalOpen, query,
                   searchTimer, initPc, submit, del, comment, ops>>

---------------------------------------------------------------------------
(* The filter controls *)

\* text is typed into the search box: the debounce timer is (re)started
SearchInput(text) ==
    /\ PageUsable
    /\ UserEvent
    /\ text # query.search
    /\ query' = [query EXCEPT !.search = text]
    /\ searchTimer' = TRUE
    /\ UNCHANGED <<isInitialized, csvFile, store, nextId, localStorage, fb,
                   songs, filteredSongs, sameArray, elementOf, cachedArtists, currentEditId,
                   songToDelete, modalOpen, deleteModalOpen, initPc, submit, del,
                   comment, imp, loading, report>>

\* the debounce timer fires: applyFilters
SearchDebounced ==
    /\ searchTimer
    /\ searchTimer' = FALSE
    /\ applyFilters(songs, query)
    /\ UNCHANGED <<isInitialized, csvFile, store, nextId, localStorage, fb,
                   songs, cachedArtists, currentEditId, songToDelete, modalOpen,
                   deleteModalOpen, query, initPc, submit, del, comment, imp,
                   loading, report, ops>>

Toggle(set, x) == IF x \in set THEN set \ {x} ELSE set \cup {x}

\* a checkbox of the type dropdown changes: applyFilters
ToggleType(t) ==
    /\ PageUsable
    /\ UserEvent
    /\ query' = [query EXCEPT !.types = Toggle(query.types, t)]
    /\ applyFilters(songs, query')
    /\ UNCHANGED <<isInitialized, csvFile, store, nextId, localStorage, fb,
                   songs, cachedArtists, currentEditId, songToDelete, modalOpen,
                   deleteModalOpen, searchTimer, initPc, submit, del, comment,
                   imp, loading, report>>

\* a checkbox of the state dropdown changes: applyFilters
ToggleState(st) ==
    /\ PageUsable
    /\ UserEvent
    /\ query' = [query EXCEPT !.states = Toggle(query.states, st)]
    /\ applyFilters(songs, query')
    /\ UNCHANGED <<isInitialized, csvFile, store, nextId, localStorage, fb,
                   songs, cachedArtists, currentEditId, songToDelete, modalOpen,
                   deleteModalOpen, searchTimer, initPc, submit, del, comment,
                   imp, loading, report>>

\* clearFilters: the controls are emptied and filteredSongs is songs itself
ClearFilters ==
    /\ PageUsable
    /\ UserEvent
    /\ query' = NoQuery
    /\ filteredSongs' = songs
    /\ sameArray' = TRUE
    /\ elementOf' = Positions(songs)
    /\ UNCHANGED <<isInitialized, csvFile, store, nextId, localStorage, fb,
                   songs, cachedArtists, currentEditId, songToDelete, modalOpen,
                   deleteModalOpen, searchTimer, initPc, submit, del, comment,
                   imp, loading, report>>

---------------------------------------------------------------------------
(* The page *)

Next ==
    \/ LoadInitialDataReady
    \/ LoadInitialDataDone
    \/ LoadInitialDataError
    \/ ShowModalAdd
    \/ \E i \in DOMAIN filteredSongs : EditSong(i)
    \/ CancelModal
    \/ \E i \in DOMAIN filteredSongs : DeleteSong(i)
    \/ CancelDeleteModal
    \/ HandleArtistInput
    \/ \E formData \in FormInputs : HandleSubmit(formData)
    \/ HandleSubmitUpdated
    \/ HandleSubmitAdded
    \/ HandleSubmitRejected
    \/ ConfirmDelete
    \/ ConfirmDeleteDeleted
    \/ ConfirmDeleteRejected
    \/ \E i \in DOMAIN filteredSongs, text \in CommentInputs : UpdateComment(i, text)
    \/ \E c \in comment : UpdateCommentUpdated(c)
    \/ \E c \in comment : UpdateCommentRejected(c)
    \/ \E file \in CsvFiles : HandleFileImport(file)
    \/ \E confirmed \in BOOLEAN : ImportFileRead(confirmed)
    \/ ImportSongAdded
    \/ ImportSongRejected
    \/ \E text \in SearchInputs : SearchInput(text)
    \/ SearchDebounced
    \/ \E t \in TypeCheckboxes : ToggleType(t)
    \/ \E st \in StateCheckboxes : ToggleState(st)
    \/ ClearFilters

Spec == Init /\ [][Next]_vars

\* the page with its scheduling: a timer that is due fires and a settled
\* promise runs its continuation, so the steps of the initial-load flow are
\* taken when they can be
LiveSpec ==
    /\ Spec
    /\ WF_vars(LoadInitialDataReady)
    /\ WF_vars(LoadInitialDataDone \/ LoadInitialDataError)

---------------------------------------------------------------------------
(* FirebaseManager called directly, one call at a time *)

Rejected(method, error) ==
    [pc |-> "settled", method |-> method, outcome |-> "rejected", error |-> error]
Resolved(method) ==
    [pc |-> "settled", method |-> method, outcome |-> "resolved"]
Awaiting(method) == [pc |-> "await", method |-> method]

\* the drafts and the field sets the adapter is called with
AdapterDrafts ==
    FormInputs \cup UNION {{f.drafts[i] : i \in DOMAIN f.drafts} : f \in CsvFiles}
AdapterIds == DOMAIN InitialStore \cup {DocId(0)}

uiVars == <<songs, filteredSongs, sameArray, elementOf, cachedArtists, currentEditId,
            songToDelete, modalOpen, deleteModalOpen, query, searchTimer,
            initPc, submit, del, comment, imp, loading, report>>

\* migrateFromLocalStorage: the data it sends for one legacy song
migrateSongData(song) ==
    Spread(WithoutId(song),
           [createdAt |-> ServerTimestamp, updatedAt |-> ServerTimestamp])

CallLoadSongs ==
    /\ fb.pc # "await"
    /\ UserEvent
    /\ fb' = IF ~loadSongsReady THEN Rejected("loadSongs", NotInitialized)
             ELSE Awaiting("loadSongs")
    /\ UNCHANGED <<isInitialized, csvFile, store, nextId, localStorage, uiVars>>

CallAddSong(song) ==
    /\ fb.pc # "await"
    /\ UserEvent
    /\ fb' = IF ~addSongReady THEN Rejected("addSong", NotInitialized)
             ELSE [pc |-> "await", method |-> "addSong", song |-> song]
    /\ UNCHANGED <<isInitialized, csvFile, store, nextId, localStorage, uiVars>>

CallUpdateSong(songId, updatedSong) ==
    /\ fb.pc # "await"
    /\ UserEvent
    /\ fb' = IF ~updateSongReady THEN Rejected("updateSong", NotInitialized)
             ELSE [pc |-> "await", method |-> "updateSong", songId |-> songId,
                   updatedSong |-> updatedSong]
    /\ UNCHANGED <<isInitialized, csvFile, store, nextId, localStorage, uiVars>>

CallDeleteSong(songId) ==
    /\ fb.pc # "await"
    /\ UserEvent
    /\ fb' = IF ~deleteSongReady THEN Rejected("deleteSong", NotInitialized)
             ELSE [pc |-> "await", method |-> "deleteSong", songId |-> songId]
    /\ UNCHANGED <<isInitialized, csvFile, store, nextId, localStorage, uiVars>>

\* migrateFromLocalStorage up to its first await: nothing to do when the
\* legacy list is empty, else the collection is read to count its documents
CallMigrate ==
    /\ fb.pc # "await"
    /\ UserEvent
    /\ fb' = IF ~migrateReady THEN Rejected("migrateFromLocalStorage", NotInitialized)
             ELSE IF Len(localStorage) = 0 THEN Resolved("migrateFromLocalStorage")
             ELSE [pc |-> "await", method |-> "migrateFromLocalStorage",
                   phase |-> "count"]
    /\ UNCHANGED <<isInitialized, csvFile, store, nextId, localStorage, uiVars>>

\* the call in flight resolves
LoadSongsResolved ==
    /\ fb.pc = "await" /\ fb.method = "loadSongs"
    /\ fb' = [Resolved("loadSongs") EXCEPT !.value = loadSongsResult(store)]
    /\ UNCHANGED <<isInitialized, csvFile, store, nextId, localStorage, uiVars, ops>>

AddSongResolved ==
    /\ fb.pc = "await" /\ fb.method = "addSong"
    /\ store' = dbAdd(store, nextId, addSongData(fb.song))
    /\ nextId' = nextId + 1
    /\ fb' = [pc |-> "settled", method |-> "addSong", outcome |-> "resolved",
              value |-> addSongResult(fb.song, DocId(nextId))]
    /\ UNCHANGED <<isInitialized, csvFile, localStorage, uiVars, ops>>

UpdateSongResolved ==
    /\ fb.pc = "await" /\ fb.method = "updateSong"
    /\ fb.songId \in DOMAIN store
    /\ store' = dbUpdate(store, fb.songId, updateSongData(fb.updatedSong), nextId)
    /\ fb' = Resolved("updateSong")
    /\ UNCHANGED <<isInitialized, csvFile, nextId, localStorage, uiVars, ops>>

DeleteSongResolved ==
    /\ fb.pc = "await" /\ fb.method = "deleteSong"
    /\ store' = dbDelete(store, fb.songId)
    /\ fb' = Resolved("deleteSong")
    /\ UNCHANGED <<isInitialized, csvFile, nextId, localStorage, uiVars, ops>>

\* the call in flight rejects (for migrateFromLocalStorage: the read that counts)
CallRejected ==
    /\ fb.pc = "await"
    /\ fb.method = "migrateFromLocalStorage" => fb.phase = "count"
    /\ fb' = Rejected(fb.method, RemoteError)
    /\ UNCHANGED <<isInitialized, csvFile, store, nextId, localStorage, uiVars, ops>>

\* migrateFromLocalStorage: the loop goes on with the remaining legacy
\* songs, or the migration is over
MigrateNext(rest) ==
    fb' = IF rest = <<>> THEN Resolved("migrateFromLocalStorage")
          ELSE [pc |-> "await", method |-> "migrateFromLocalStorage",
                phase |-> "create", queue |-> rest]

\* a migration that does not compare the two counts
MigrateCountedAlways ==
    /\ fb.pc = "await" /\ fb.method = "migrateFromLocalStorage"
    /\ fb.phase = "count"
    /\ MigrateNext(localStorage)
    /\ UNCHANGED <<isInitialized, csvFile, store, nextId, localStorage, uiVars, ops>>

\* the snapshot has arrived: migrate when the collection holds fewer
\* documents than the legacy list
MigrateCounted ==
    /\ fb.pc = "await" /\ fb.method = "migrateFromLocalStorage"
    /\ fb.phase = "count"
    /\ IF Cardinality(DOMAIN store) < Len(localStorage)
       THEN MigrateNext(localStorage)
       ELSE fb' = Resolved("migrateFromLocalStorage")
    /\ UNCHANGED <<isInitialized, csvFile, store, nextId, localStorage, uiVars, ops>>

MigrateSongAdded ==
    /\ fb.pc = "await" /\ fb.method = "migrateFromLocalStorage"
    /\ fb.phase = "create"
    /\ store' = dbAdd(store, nextId, migrateSongData(Head(fb.queue)))
    /\ nextId' = nextId + 1
    /\ MigrateNext(Tail(fb.queue))
    /\ UNCHANGED <<isInitialized, csvFile, localStorage, uiVars, ops>>

MigrateSongRejected ==
    /\ fb.pc = "await" /\ fb.method = "migrateFromLocalStorage"
    /\ fb.phase = "create"
    /\ MigrateNext(Tail(fb.queue))
    /\ UNCHANGED <<isInitialized, csvFile, store, nextId, localStorage, uiVars, ops>>

AdapterNext ==
    \/ CallLoadSongs
    \/ \E song \in AdapterDrafts : CallAddSong(song)
    \/ \E songId \in AdapterIds, updatedSong \in FormInputs :
          CallUpdateSong(songId, updatedSong)
    \/ \E songId \in AdapterIds : CallDeleteSong(songId)
    \/ CallMigrate
    \/ LoadSongsResolved
    \/ AddSongResolved
    \/ UpdateSongResolved
    \/ DeleteSongResolved
    \/ CallRejected
    \/ MigrateCounted
    \/ MigrateSongAdded
    \/ MigrateSongRejected

AdapterSpec == Init /\ [][AdapterNext]_vars

---------------------------------------------------------------------------
(* CSV text: SongManager.generateCSVContent and CSVImporter.parseCSV *)

\* the characters of the words the code writes into and looks up in a CSV text
Chars(word) ==
    CASE word = "Nombre" -> <<"N", "o", "m", "b", "r", "e">>
      [] word = "Artista" -> <<"A", "r", "t", "i", "s", "t", "a">>
      [] word = "Estado" -> <<"E", "s", "t", "a", "d", "o">>
      [] word = "Tipo" -> <<"T", "i", "p", "o">>
      [] word = "Comentarios" -> <<"C", "o", "m", "e", "n", "t", "a", "r", "i", "o", "s">>
      [] word = "YouTube" -> <<"Y", "o", "u", "T", "u", "b", "e">>
      [] word = "Género" -> <<"G", "é", "n", "e", "r", "o">>
      [] word = "Aprobado" -> <<"A", "p", "r", "o", "b", "a", "d", "o">>
      [] word = "Por aprobar" -> <<"P", "o", "r", " ", "a", "p", "r", "o", "b", "a", "r">>
      [] word = "En grabación" -> <<"E", "n", " ", "g", "r", "a", "b", "a", "c", "i", "ó", "n">>
      [] word = "Listo" -> <<"L", "i", "s", "t", "o">>
      [] word = "Rechazado" -> <<"R", "e", "c", "h", "a", "z", "a", "d", "o">>
      [] word = "Lento" -> <<"L", "e", "n", "t", "o">>
      [] word = "Movido" -> <<"M", "o", "v", "i", "d", "o">>

Quote == "\""
Comma == ","
Newline == "\n"
Whitespace == {" ", "\t", "\r", "\n"}

\* Array.prototype.join
RECURSIVE join(_, _)
join(list, sep) ==
    IF list = <<>> THEN <<>>
    ELSE IF Len(list) = 1 THEN list[1]
    ELSE list[1] \o <<sep>> \o join(Tail(list), sep)

\* String.prototype.split on a one-character separator
RECURSIVE split(_, _)
split(s, sep) ==
    IF \E i \in DOMAIN s : s[i] = sep
    THEN LET i == CHOOSE k \in DOMAIN s :
                     s[k] = sep /\ \A j \in 1..(k - 1) : s[j] # sep
         IN  <<SubSeq(s, 1, i - 1)>> \o split(SubSeq(s, i + 1, Len(s)), sep)
    ELSE <<s>>

\* String.prototype.trim
RECURSIVE trim(_)
trim(s) ==
    IF s = <<>> THEN s
    ELSE IF s[1] \in Whitespace THEN trim(Tail(s))
    ELSE IF s[Len(s)] \in Whitespace THEN trim(SubSeq(s, 1, Len(s) - 1))
    ELSE s

\* stringField.replace(/"/g, '""')
RECURSIVE doubleQuotes(_)
doubleQuotes(s) ==
    IF s = <<>> THEN <<>>
    ELSE (IF s[1] = Quote THEN <<Quote, Quote>> ELSE <<s[1]>>) \o doubleQuotes(Tail(s))

\* an escapeCSVField that writes every field as it is
escapeCSVFieldPlain(field) ==
    IF field = Null \/ field = Undefined THEN <<>> ELSE field

\* escapeCSVField of a string
escapeCSVField(field) ==
    IF field = Null \/ field = Undefined THEN <<>>
    ELSE IF \E i \in DOMAIN field : field[i] \in {Comma, Quote, Newline}
    THEN <<Quote>> \o doubleQuotes(field) \o <<Quote>>
    ELSE field

\* song.comments || '' and song.youtubeLink || ''
OrEmpty(v) == IF v = Undefined \/ v = Null THEN <<>> ELSE v

CsvHeaders == <<"Nombre", "Artista", "Estado", "Tipo", "Comentarios", "YouTube">>

\* generateCSVContent: the header row and one row per song of the list
generateCSVContent(list) ==
    LET row(song) ==
            join(<< escapeCSVField(song.songName),
                    escapeCSVField(song.artistName),
                    escapeCSVField(Chars(song.state)),
                    escapeCSVField(Chars(song.type)),
                    escapeCSVField(OrEmpty(Get(song, "comments"))),
                    escapeCSVField(OrEmpty(Get(song, "youtubeLink"))) >>, Comma)
        csvRows == <<join([i \in DOMAIN CsvHeaders |-> Chars(CsvHeaders[i])], Comma)>>
                   \o [i \in DOMAIN list |-> row(list[i])]
    IN  join(csvRows, Newline)

\* a parseCSVLine that splits at every comma and knows no quotes
parseCSVLineNoQuotes(line) == split(line, Comma)

\* parseCSVLine: the loop over the characters of the line from position i on
RECURSIVE parseCSVLineFrom(_, _, _, _, _)
parseCSVLineFrom(line, i, result, current, inQuotes) ==
    IF i > Len(line) THEN Append(result, current)
    ELSE IF line[i] = Quote
    THEN parseCSVLineFrom(line, i + 1, result, current, ~inQuotes)
    ELSE IF line[i] = Comma /\ ~inQuotes
    THEN parseCSVLineFrom(line, i + 1, Append(result, current), <<>>, inQuotes)
    ELSE parseCSVLineFrom(line, i + 1, result, Append(current, line[i]), inQuotes)

parseCSVLine(line) == parseCSVLineFrom(line, 1, <<>>, <<>>, FALSE)

\* mapState and mapType: stateMap[csvState] || 'Por aprobar' and
\* typeMap[csvType] || 'Lento'
mapState(csvState) ==
    IF \E st \in States : Chars(st) = csvState
    THEN CHOOSE st \in States : Chars(st) = csvState
    ELSE IF Inherits(csvState) THEN Inherited(csvState)
    ELSE "Por aprobar"

mapType(csvType) ==
    IF \E ty \in Types : Chars(ty) = csvType
    THEN CHOOSE ty \in Types : Chars(ty) = csvType
    ELSE IF Inherits(csvType) THEN Inherited(csvType)
    ELSE "Lento"

\* values[k]?.trim() || '' (k counts from 0)
FieldAt(values, k) == IF k + 1 <= Len(values) THEN trim(values[k + 1]) ELSE <<>>

\* parseCSV: the drafts of the lines from number i on (the header is line 0);
\* the locally generated id of a draft is modelled by the number of its line
RECURSIVE parseCSVFrom(_, _, _)
parseCSVFrom(lines, headers, i) ==
    IF i + 1 > Len(lines) THEN <<>>
    ELSE LET line == trim(lines[i + 1])
             values == parseCSVLine(line)
             isNewFormat == /\ \E h \in DOMAIN headers : headers[h] = Chars("Estado")
                            /\ \E h \in DOMAIN headers : headers[h] = Chars("Tipo")
             song == IF isNewFormat
                     THEN [id |-> LocalId(i),
                           artistName |-> FieldAt(values, 1),
                           songName |-> FieldAt(values, 0),
                           youtubeLink |-> FieldAt(values, 5),
                           state |-> mapState(FieldAt(values, 2)),
                           type |-> mapType(FieldAt(values, 3)),
                           comments |-> FieldAt(values, 4)]
                     ELSE [id |-> LocalId(i),
                           artistName |-> FieldAt(values, 1),
                           songName |-> FieldAt(values, 0),
                           youtubeLink |-> <<>>,
                           state |-> mapState(FieldAt(values, 3)),
                           type |-> mapType(FieldAt(values, 4)),
                           comments |-> <<>>]
             rest == parseCSVFrom(lines, headers, i + 1)
         IN  IF line = <<>> THEN rest
             ELSE IF Len(values) >= 4 THEN <<song>> \o rest
             ELSE rest

parseCSV(csvText) ==
    LET lines == split(csvText, Newline)
        firstLine == split(lines[1], Comma)
        headers == [h \in DOMAIN firstLine |-> trim(firstLine[h])]
    IN  parseCSVFrom(lines, headers, 1)

\* the file downloadCSV saved, chosen again in csvFileInput
DownloadedFile == [csv |-> TRUE, readable |-> TRUE, drafts |-> parseCSV(csvFile)]

\* downloadCsvBtn: downloadCSV; the button is in the loading state while
\* the file is written
DownloadCSV ==
    /\ PageUsable
    /\ UserEvent
    /\ IF filteredSongs = <<>>
       THEN /\ report' = Report("nothingToExport", "none", 0)
            /\ UNCHANGED <<csvFile, loading>>
       ELSE /\ csvFile' = generateCSVContent(filteredSongs)
            /\ loading' = hideButtonLoading(showButtonLoading(loading, "downloadCsvBtn"),
                                            "downloadCsvBtn")
            /\ UNCHANGED report
    /\ UNCHANGED <<isInitialized, store, nextId, localStorage, fb, songs,
                   filteredSongs, sameArray, elementOf, cachedArtists, currentEditId,
                   songToDelete, modalOpen, deleteModalOpen, query, searchTimer,
                   initPc, submit, del, comment, imp>>

\* downloadPdfBtn: generateFilteredPDF -> generatePDF; the jsPDF calls of
\* the try block go through or one of them throws
GeneratePDF(thrown) ==
    /\ PageUsable
    /\ UserEvent
    /\ IF filteredSongs = <<>>
       THEN /\ report' = Report("nothingToPrint", "none", 0)
            /\ UNCHANGED loading
       ELSE /\ loading' = hideButtonLoading(showButtonLoading(loading, "downloadPdfBtn"),
                                            "downloadPdfBtn")
            /\ report' = IF thrown THEN report
                         ELSE Report("pdfSaved", "none", Len(filteredSongs))
    /\ UNCHANGED <<isInitialized, csvFile, store, nextId, localStorage, fb, songs,
                   filteredSongs, sameArray, elementOf, cachedArtists, currentEditId,
                   songToDelete, modalOpen, deleteModalOpen, query, searchTimer,
                   initPc, submit, del, comment, imp>>

\* documents whose names hold a comma, a double quote, a leading blank or a
\* line break
CsvDocs ==
    (DocId(1) :> [artistName |-> <<"a", ",", "b">>, songName |-> <<"c">>,
                  youtubeLink |-> <<"u">>, state |-> "En grabación", type |-> "Movido",
                  comments |-> <<"b">>, createdAt |-> Time(1), updatedAt |-> Time(1)])
    @@
    (DocId(2) :> [artistName |-> <<"d">>, songName |-> <<"a", Quote, "b">>,
                  youtubeLink |-> <<>>, state |-> "Listo", type |-> "Lento",
                  createdAt |-> Time(2), updatedAt |-> Time(2)])
    @@
    (DocId(3) :> [artistName |-> <<" ", "a">>, songName |-> <<"b">>,
                  youtubeLink |-> <<>>, state |-> "Aprobado", type |-> "Movido",
                  createdAt |-> Time(3), updatedAt |-> Time(3)])
    @@
    (DocId(4) :> [artistName |-> <<"c">>, songName |-> <<"a", Newline, "b">>,
                  youtubeLink |-> <<>>, state |-> "Rechazado", type |-> "Lento",
                  createdAt |-> Time(4), updatedAt |-> Time(4)])

\* the page after loadInitialData has loaded some of these documents
CsvInit ==
    /\ isInitialized = TRUE
    /\ \E ids \in SUBSET DOMAIN CsvDocs : store = [d \in ids |-> CsvDocs[d]]
    /\ nextId = Cardinality(DOMAIN CsvDocs) + 1
    /\ localStorage = <<>>
    /\ fb = NoCall
    /\ songs = loadSongsResult(store)
    /\ filteredSongs = songs
    /\ sameArray = TRUE
    /\ elementOf = Positions(songs)
    /\ cachedArtists = NoArtists
    /\ currentEditId = Null
    /\ songToDelete = Null
    /\ modalOpen = FALSE
    /\ deleteModalOpen = FALSE
    /\ query = NoQuery
    /\ searchTimer = FALSE
    /\ initPc = "done"
    /\ submit = NoSubmit
    /\ del = NoDelete
    /\ comment = {}
    /\ imp = NoImport
    /\ loading = {}
    /\ report = NoReport
    /\ ops = 0
    /\ csvFile = Null

CsvNext ==
    \/ DownloadCSV
    \/ csvFile # Null /\ HandleFileImport(DownloadedFile)
    \/ \E confirmed \in BOOLEAN : ImportFileRead(confirmed)
    \/ ImportSongAdded
    \/ ImportSongRejected

CsvSpec == CsvInit /\ [][CsvNext]_vars

---------------------------------------------------------------------------
(* CSVImporter.parseCSV on files the user holds *)

\* a CSV text written row by row, each row field by field
CsvRow(fields) == join(fields, Comma)
CsvText(rows) == join(rows, Newline)

\* the header row downloadCSV writes, the header of the original format as
\* parseCSV documents it, and a header of five columns under other names
NewHeader == CsvRow([i \in DOMAIN CsvHeaders |-> Chars(CsvHeaders[i])])
OriginalHeader ==
    CsvRow(<<Chars("Nombre"), Chars("Artista"), Chars("Género"), Chars("Estado"),
             Chars("Tipo")>>)
OtherHeader == CsvRow(<< <<"n">>, <<"a">>, <<"g">>, <<"s">>, <<"t">> >>)

\* data rows: quoted fields with a comma and with doubled quotes, a quote in
\* the middle of a field, state and type names the tables know and do not
\* know, names of inherited properties in their place, blanks around a
\* field, rows of four and of three fields
CsvDataRows ==
    << CsvRow(<< <<"c">>, <<Quote, "a", Comma, "b", Quote>>, Chars("Aprobado"),
                 Chars("Movido"), <<"b">>, <<"u">> >>),
       CsvRow(<< <<"c">>, <<"d">>, <<"g">>, Chars("Listo"), Chars("Movido") >>),
       CsvRow(<< <<Quote, "a", Quote, Quote, "b", Quote>>, <<"d">>, <<"x">>, <<"y">>,
                 <<Quote, "b", Comma, Quote>>, <<>> >>),
       CsvRow(<< <<" ", "b">>, <<"a", Quote, "b", Comma, "c">>,
                 Chars("En grabación"), Chars("Lento") >>),
       CsvRow(<< <<"a">>, <<"b">>, <<"g">>, Chars("Rechazado") >>),
       CsvRow(<< <<"b">>, <<"c">>, <<"t", "o", "S", "t", "r", "i", "n", "g">>,
                 <<"c", "o", "n", "s", "t", "r", "u", "c", "t", "o", "r">> >>),
       CsvRow(<< <<"a">>, <<"b">>, Chars("Listo") >>) >>

\* the files: one of the three headers, then one or two of the data rows,
\* with an empty line in between when there are two
CsvTexts ==
    { CsvText(<<h, CsvDataRows[i]>>) :
          h \in {NewHeader, OriginalHeader, OtherHeader}, i \in DOMAIN CsvDataRows }
    \cup
    { CsvText(<<h, CsvDataRows[i], <<>>, CsvDataRows[i + 1]>>) :
          h \in {NewHeader, OriginalHeader, OtherHeader},
          i \in 1..(Len(CsvDataRows) - 1) }

\* the page after loadInitialData, and a CSV file the user is about to choose
ParseInit ==
    /\ isInitialized = TRUE
    /\ store = InitialStore
    /\ nextId = InitialNextId
    /\ localStorage = <<>>
    /\ fb = NoCall
    /\ songs = loadSongsResult(store)
    /\ filteredSongs = songs
    /\ sameArray = TRUE
    /\ elementOf = Positions(songs)
    /\ cachedArtists = NoArtists
    /\ currentEditId = Null
    /\ songToDelete = Null
    /\ modalOpen = FALSE
    /\ deleteModalOpen = FALSE
    /\ query = NoQuery
    /\ searchTimer = FALSE
    /\ initPc = "done"
    /\ submit = NoSubmit
    /\ del = NoDelete
    /\ comment = {}
    /\ imp = NoImport
    /\ loading = {}
    /\ report = NoReport
    /\ ops = 0
    /\ csvFile \in CsvTexts

ParseNext ==
    \/ HandleFileImport(DownloadedFile)
    \/ \E confirmed \in BOOLEAN : ImportFileRead(confirmed)
    \/ ImportSongAdded
    \/ ImportSongRejected

ParseSpec == ParseInit /\ [][ParseNext]_vars

---------------------------------------------------------------------------
(* FilterManager on a loaded catalog *)

\* documents a catalog may hold: comments present, absent and empty, and a
\* search text found in the artist name, the song name or the comments only
FilterDocs ==
    (DocId(1) :> [artistName |-> <<"A", "b">>, songName |-> <<"C", "d">>,
                  youtubeLink |-> <<"u">>, state |-> "Aprobado", type |-> "Lento",
                  comments |-> <<"b">>, createdAt |-> Time(1), updatedAt |-> Time(1)])
    @@
    (DocId(2) :> [artistName |-> <<"c">>, songName |-> <<"d">>,
                  youtubeLink |-> <<>>, state |-> "Por aprobar", type |-> "Movido",
                  createdAt |-> Time(2), updatedAt |-> Time(2)])
    @@
    (DocId(3) :> [artistName |-> <<"d">>, songName |-> <<"a", "B">>,
                  youtubeLink |-> <<>>, state |-> "Listo", type |-> "Movido",
                  comments |-> <<>>, createdAt |-> Time(3), updatedAt |-> Time(3)])
    @@
    (DocId(4) :> [artistName |-> <<"d">>, songName |-> <<"c">>,
                  youtubeLink |-> <<>>, state |-> "Aprobado", type |-> "Movido",
                  comments |-> <<"a", "B">>, createdAt |-> Time(4), updatedAt |-> Time(4)])

\* the page after loadInitialData has loaded some of these documents
FilterInit ==
    /\ isInitialized = TRUE
    /\ \E ids \in SUBSET DOMAIN FilterDocs : store = [d \in ids |-> FilterDocs[d]]
    /\ nextId = Cardinality(DOMAIN FilterDocs) + 1
    /\ localStorage = <<>>
    /\ fb = NoCall
    /\ songs = loadSongsResult(store)
    /\ filteredSongs = songs
    /\ sameArray = TRUE
    /\ elementOf = Positions(songs)
    /\ cachedArtists = NoArtists
    /\ currentEditId = Null
    /\ songToDelete = Null
    /\ modalOpen = FALSE
    /\ deleteModalOpen = FALSE
    /\ query = NoQuery
    /\ searchTimer = FALSE
    /\ initPc = "done"
    /\ submit = NoSubmit
    /\ del = NoDelete
    /\ comment = {}
    /\ imp = NoImport
    /\ loading = {}
    /\ report = NoReport
    /\ ops = 0
    /\ csvFile = Null

FilterNext ==
    \/ \E text \in SearchInputs : SearchInput(text)
    \/ SearchDebounced
    \/ \E t \in TypeCheckboxes : ToggleType(t)
    \/ \E st \in StateCheckboxes : ToggleState(st)
    \/ ClearFilters

FilterSpec == FilterInit /\ [][FilterNext]_vars

---------------------------------------------------------------------------
(* A comment edit and a form edit of one song in flight at once *)

\* the page after the initial load, with an updateComment of song X
\* suspended on its updateSong call and a handleSubmit of the edit form of
\* the same song suspended on its own
RaceInit ==
    /\ isInitialized = TRUE
    /\ store = InitialStore
    /\ nextId = InitialNextId
    /\ localStorage = <<>>
    /\ fb = NoCall
    /\ songs = loadSongsResult(store)
    /\ filteredSongs = songs
    /\ sameArray = TRUE
    /\ elementOf = Positions(songs)
    /\ cachedArtists = NoArtists
    /\ \E i \in DOMAIN songs, text \in CommentInputs, formData \in FormInputs :
          /\ currentEditId = songs[i].id
          /\ submit = [pc |-> "update", id |-> songs[i].id, formData |-> formData]
          /\ comment = {[songId |-> songs[i].id,
                         updatedSong |-> Spread(songs[i], [comments |-> text])]}
    /\ songToDelete = Null
    /\ modalOpen = TRUE
    /\ deleteModalOpen = FALSE
    /\ query = NoQuery
    /\ searchTimer = FALSE
    /\ initPc = "done"
    /\ del = NoDelete
    /\ imp = NoImport
    /\ loading = {"saveSongBtn"}
    /\ report = NoReport
    /\ ops = 0
    /\ csvFile = Null

\* the two calls settle in either order; meanwhile the user may close the
\* form, open it for a song again and use the filter controls
RaceNext ==
    \/ HandleSubmitUpdated
    \/ HandleSubmitRejected
    \/ \E c \in comment : UpdateCommentUpdated(c)
    \/ \E c \in comment : UpdateCommentRejected(c)
    \/ CancelModal
    \/ \E i \in DOMAIN filteredSongs : EditSong(i)
    \/ \E text \in SearchInputs : SearchInput(text)
    \/ SearchDebounced
    \/ \E t \in TypeCheckboxes : ToggleType(t)
    \/ \E st \in StateCheckboxes : ToggleState(st)
    \/ ClearFilters

RaceSpec == RaceInit /\ [][RaceNext]_vars

---------------------------------------------------------------------------
(* The handlers that put a button into the loading state *)

ButtonsNext ==
    \/ LoadInitialDataReady
    \/ LoadInitialDataDone
    \/ LoadInitialDataError
    \/ ShowModalAdd
    \/ \E i \in DOMAIN filteredSongs : EditSong(i)
    \/ CancelModal
    \/ \E i \in DOMAIN filteredSongs : DeleteSong(i)
    \/ CancelDeleteModal
    \/ \E formData \in FormInputs : HandleSubmit(formData)
    \/ HandleSubmitUpdated
    \/ HandleSubmitAdded
    \/ HandleSubmitRejected
    \/ ConfirmDelete
    \/ ConfirmDeleteDeleted
    \/ ConfirmDeleteRejected
    \/ \E file \in CsvFiles : HandleFileImport(file)
    \/ \E confirmed \in BOOLEAN : ImportFileRead(confirmed)
    \/ ImportSongAdded
    \/ ImportSongRejected
    \/ DownloadCSV
    \/ \E thrown \in BOOLEAN : GeneratePDF(thrown)

ButtonsSpec == Init /\ [][ButtonsNext]_vars

---------------------------------------------------------------------------
(* Properties *)

\* no handler is suspended and no debounce timer is pending
Quiescent ==
    /\ initPc = "done"
    /\ submit.pc = "idle"
    /\ del.pc = "idle"
    /\ comment = {}
    /\ imp.pc = "idle"
    /\ ~searchTimer

SongFields == {"artistName", "songName", "state", "type", "youtubeLink", "comments"}

\* C1: once every operation has completed, filteredSongs is the filter of
\* the current songs under the current filter controls.
C1_FilteredViewIsCurrent ==
    Quiescent => filteredSongs = filterSongs(songs, query)

\* a single-record operation issues its Remote Store call
SingleRecordStarts ==
    \/ \E formData \in FormInputs : HandleSubmit(formData)
    \/ ConfirmDelete
    \/ \E i \in DOMAIN filteredSongs, text \in CommentInputs : UpdateComment(i, text)

\* the Remote Store call of a single-record operation fails: it rejects, or
\* it throws at once because the adapter is not initialized
SingleRecordFails ==
    \/ HandleSubmitRejected
    \/ ConfirmDeleteRejected
    \/ \E c \in comment : UpdateCommentRejected(c)
    \/ SingleRecordStarts /\ ~isInitialized /\ report' # report

ErrorReports == {"saveError", "deleteError", "commentError"}

\* C2: a single-record operation whose Remote Store call fails leaves songs
\* and filteredSongs as they were when it started (neither the step that
\* issues the call nor the step that handles the failure changes them) and
\* reports the failure to the user.
C2_FailureLeavesMirror ==
    [][/\ (SingleRecordStarts \/ SingleRecordFails) =>
             songs' = songs /\ filteredSongs' = filteredSongs
       /\ SingleRecordFails =>
             report'.kind \in ErrorReports /\ report'.err \in {RemoteError, NotInitialized}
      ]_vars

\* C2 witness: a save was rejected by the Remote Store while the mirror
\* held the loaded songs
C2_Witness ==
    /\ report.kind = "saveError"
    /\ report.err = RemoteError
    /\ Len(songs) = 2
    /\ submit.pc = "idle"

\* C3: when the Remote Store acknowledges a form edit of song X and nothing
\* else is in flight, the entry X of songs agrees with the stored document
\* on every Song field.
C3_EditedEntryAgreesWithStore ==
    [][(HandleSubmitUpdated /\ del.pc = "idle" /\ comment = {} /\ imp.pc = "idle"
            /\ initPc = "done") =>
          \A i \in DOMAIN songs' :
              songs'[i].id = submit.id =>
                  \A f \in SongFields : Get(songs'[i], f) = Get(store'[submit.id], f)
      ]_vars

\* C4: when the Remote Store acknowledges the delete started by
\* confirmDelete for song X, X is removed from songs and filteredSongs is
\* recomputed, whatever the user did while the delete was pending.
C4_AcknowledgedDeleteRemoves ==
    [][ConfirmDeleteDeleted =>
          /\ del.id \notin Ids(songs')
          /\ filteredSongs' = filterSongs(songs', query)
      ]_vars

\* C5: when the Remote Store acknowledges the form edit submitted for song
\* X, the entry X of songs is replaced by the submitted fields and every
\* other entry is left unchanged, whatever the user did while it was pending.
C5_AcknowledgedEditReplacesOnlyX ==
    [][HandleSubmitUpdated =>
          /\ Len(songs') = Len(songs)
          /\ \A i \in DOMAIN songs :
                IF songs[i].id = submit.id
                THEN songs'[i] = Spread(submit.formData, [id |-> submit.id])
                ELSE songs'[i] = songs[i]
      ]_vars

\* a step in which addSong resolves
AddSongResolves == HandleSubmitAdded \/ ImportSongAdded

\* C6: for every draft given to addSong, with a client-supplied id or
\* without, the document that is persisted has no id field and the
\* returned record carries the id the store assigned, not the client's.
C6_StoreAssignsId ==
    [][AddSongResolves =>
          /\ DocId(nextId) \in DOMAIN store' \ DOMAIN store
          /\ "id" \notin DOMAIN store'[DocId(nextId)]
          /\ songs'[Len(songs')].id = DocId(nextId)
          /\ \A i \in DOMAIN songs' : songs'[i].id[1] = "doc"
      ]_vars

\* C6 witness: a draft of parseCSV, which carries a locally generated id,
\* was created in the store and pushed
C6_Witness ==
    /\ imp.pc = "adding"
    /\ imp.ok >= 1
    /\ "id" \in DOMAIN Head(imp.queue)
    /\ songs # <<>>
    /\ songs[Len(songs)].id = DocId(nextId - 1)

\* the ids of songs are store-assigned and pairwise distinct
UniqueIds ==
    /\ \A i \in DOMAIN songs :
          /\ "id" \in DOMAIN songs[i]
          /\ songs[i].id[1] = "doc"
          /\ songs[i].id[2] < nextId
    /\ \A i, j \in DOMAIN songs : songs[i].id = songs[j].id => i = j

\* a step that replaces an entry of songs in place
ReplacesInPlace ==
    HandleSubmitUpdated \/ \E c \in comment : UpdateCommentUpdated(c)

\* C7: no two entries of songs have the same id, every id is one the store
\* assigned, and a form edit or comment edit never changes the id found at
\* any position of songs.
C7_IdsUniqueAndStable ==
    /\ []UniqueIds
    /\ [][ReplacesInPlace =>
             /\ Len(songs') = Len(songs)
             /\ \A i \in DOMAIN songs : songs'[i].id = songs[i].id
         ]_vars

\* C7 witness: songs holds loaded, added and edited entries
C7_Witness ==
    /\ Len(songs) = 3
    /\ \E i \in DOMAIN songs : "createdAt" \notin DOMAIN songs[i] /\ songs[i].id = DocId(1)
    /\ songs[3].id = DocId(3)

\* C8: while isInitialized is false, every adapter method rejects with the
\* not-initialized error and neither reads nor writes the collection.
C8_NotInitializedRejects ==
    ~isInitialized =>
        /\ store = InitialStore
        /\ nextId = InitialNextId
        /\ fb.pc # "await"
        /\ fb.pc = "settled" => fb.outcome = "rejected" /\ fb.error = NotInitialized

\* C8 witness: migrateFromLocalStorage was called with a legacy list to
\* migrate while the adapter was not initialized
C8_Witness ==
    /\ ~isInitialized
    /\ fb.pc = "settled"
    /\ fb.method = "migrateFromLocalStorage"
    /\ Len(localStorage) > 0

\* the import goes on with the next candidate, or ends after the last one
ImportGoesOn ==
    IF Len(imp.queue) > 1
    THEN imp'.pc = "adding" /\ imp'.queue = Tail(imp.queue)
    ELSE imp'.pc = "idle" /\ report'.kind = "imported"

\* C9: in a confirmed import a failed create leaves songs unchanged and
\* does not stop the creates of the candidates after it; a create that
\* succeeds appends its record (the draft under the store's id) to songs.
C9_ImportToleratesFailures ==
    [][/\ ImportSongRejected => songs' = songs /\ ImportGoesOn
       /\ ImportSongAdded =>
             /\ songs' = Append(songs, Spread(WithoutId(Head(imp.queue)),
                                              [id |-> DocId(nextId)]))
             /\ ImportGoesOn
      ]_vars

\* C9 witness: of three accepted candidates the first create succeeded, the
\* second failed, and the third is in flight
C9_Witness ==
    /\ imp.pc = "adding"
    /\ imp.new = 3
    /\ Len(imp.queue) = 1
    /\ imp.ok = 1
    /\ Len(songs) = 1

\* C10: when a confirmed import finishes, the number reported as imported
\* is the number of candidates whose create succeeded, and the counts shown
\* before the import satisfy parsed = new + skipped.
C10_ReportedCountIsSuccesses ==
    [][(imp.pc = "adding" /\ imp'.pc = "idle") =>
          /\ report'.kind = "imported"
          /\ report'.n = imp.ok + (nextId' - nextId)
          /\ imp.parsed = imp.new + imp.skipped
      ]_vars

\* the step in which handleFileImport has the parsed drafts of a readable file
ImportFilters ==
    /\ \E confirmed \in BOOLEAN : ImportFileRead(confirmed)
    /\ imp.file.readable
    /\ imp.file.drafts # <<>>

\* C11: the duplicate filter keeps, in their order, exactly the candidates
\* that no song of the catalog matches in artistName and songName compared
\* without regard to letter case; only kept candidates are sent to the
\* Remote Store.
C11_DuplicateFilterKeepsNew ==
    [][/\ ImportFilters =>
             LET isNew(c) == ~\E k \in DOMAIN songs :
                     /\ toLowerCase(songs[k].artistName) = toLowerCase(c.artistName)
                     /\ toLowerCase(songs[k].songName) = toLowerCase(c.songName)
                 kept == SelectSeq(imp.file.drafts, isNew)
             IN  /\ store' = store
                 /\ kept = <<>> => imp'.pc = "idle" /\ report'.kind = "allDuplicates"
                 /\ imp'.pc = "adding" => imp'.queue = kept
                 /\ report'.kind = "confirm" => report'.n = Len(kept)
       /\ ImportSongAdded =>
             /\ imp'.pc = "adding" => imp'.queue = Tail(imp.queue)
             /\ \A f \in {"artistName", "songName"} :
                   store'[DocId(nextId)][f] = Head(imp.queue)[f]
      ]_vars

\* C11 witness: of the three drafts of a file the one that matches a loaded
\* song in another letter case was left out and the other two are to be created
C11_Witness ==
    /\ imp.pc = "adding"
    /\ imp.parsed = 3
    /\ imp.skipped = 1
    /\ Len(imp.queue) = 2
    /\ Len(songs) = 2
    /\ \A i \in DOMAIN imp.queue : imp.queue[i].id # LocalId(1)

\* a step that runs FilterManager.applyFilters
AppliesFilters ==
    \/ SearchDebounced
    \/ \E t \in TypeCheckboxes : ToggleType(t)
    \/ \E st \in StateCheckboxes : ToggleState(st)

\* the match rule: the search text is empty or occurs, letter case aside, in
\* a name or in the comments the song has; its type and its state are among
\* the selected ones, when any are selected
Matches(song, q) ==
    /\ \/ q.search = <<>>
       \/ \E f \in {"songName", "artistName", "comments"} \cap DOMAIN song :
             includes(toLowerCase(song[f]), toLowerCase(q.search))
    /\ q.types = {} \/ song.type \in q.types
    /\ q.states = {} \/ song.state \in q.states

\* C12: applyFilters keeps a song exactly when it matches the search text
\* (in songName, artistName or comments, without regard to case), the
\* selected types and the selected states; a song with no or empty comments
\* matches the search only through its names.
C12_AppliesMatchRule ==
    [][AppliesFilters =>
          /\ filteredSongs' = SelectSeq(songs, LAMBDA song : Matches(song, query'))
          /\ \A i \in DOMAIN songs :
                (/\ query'.search # <<>>
                 /\ Get(songs[i], "comments") \in {Undefined, <<>>}
                 /\ \E j \in DOMAIN filteredSongs' : filteredSongs'[j] = songs[i])
                => \E f \in {"songName", "artistName"} :
                      includes(toLowerCase(songs[i][f]), toLowerCase(query'.search))
      ]_vars

\* C12 witness: under the search text "B" the filter kept a song found by
\* its artist name, one found by its song name although its comments are
\* empty, and one found by its comments only, and dropped the song that has
\* no comments and no "b" in its names
C12_Witness ==
    /\ query.search = <<"B">>
    /\ ~searchTimer
    /\ Len(songs) = 4
    /\ Ids(filteredSongs) = {DocId(1), DocId(3), DocId(4)}

\* sub can be obtained from list by leaving elements out
RECURSIVE IsSubsequence(_, _)
IsSubsequence(sub, list) ==
    IF sub = <<>> THEN TRUE
    ELSE IF list = <<>> THEN FALSE
    ELSE IF Head(sub) = Head(list) THEN IsSubsequence(Tail(sub), Tail(list))
    ELSE IsSubsequence(sub, Tail(list))

\* C13: the filtered result is a subsequence of songs in the order of
\* songs, applying the filter leaves songs as it was, filtering the result
\* again changes nothing, and a second application to the same songs under
\* the same query gives the same result.
C13_FilterIsStableSubsequence ==
    [][AppliesFilters =>
          /\ songs' = songs
          /\ IsSubsequence(filteredSongs', songs)
          /\ SelectSeq(filteredSongs', LAMBDA song : Matches(song, query')) = filteredSongs'
          /\ (/\ query' = query
              /\ ~sameArray
              /\ filteredSongs = SelectSeq(songs, LAMBDA song : Matches(song, query)))
             => filteredSongs' = filteredSongs
      ]_vars

\* C13 witness: the filter was applied a second time under the same query,
\* and it holds three of the four songs, in their order
C13_Witness ==
    /\ query = [search |-> <<"B">>, types |-> {}, states |-> {}]
    /\ ~searchTimer
    /\ Len(songs) = 4
    /\ Len(filteredSongs) = 3
    /\ ops = 3

\* C14: whenever there is an artist list (cachedArtists is not null), it
\* holds exactly the artistName values of the current songs, each once.
C14_ArtistIndexIsCurrent ==
    cachedArtists.built =>
        /\ {cachedArtists.artists[i] : i \in DOMAIN cachedArtists.artists}
              = {songs[i].artistName : i \in DOMAIN songs}
        /\ \A i, j \in DOMAIN cachedArtists.artists :
              cachedArtists.artists[i] = cachedArtists.artists[j] => i = j

\* the drafts agree with the songs, one for one and in order, on both names,
\* the state and the type
SameSongs(drafts, list) ==
    /\ Len(drafts) = Len(list)
    /\ \A i \in DOMAIN list :
          /\ i \in DOMAIN drafts
          /\ \A f \in {"artistName", "songName", "state", "type"} :
                drafts[i][f] = list[i][f]

\* C15: parseCSV applied to the text generateCSVContent produced for the
\* songs on display yields one draft per song, in order, with the same
\* artistName, songName, state and type.
C15_CsvRoundTrip ==
    (imp.pc = "reading" /\ csvFile = generateCSVContent(filteredSongs))
        => SameSongs(imp.file.drafts, filteredSongs)

\* the migration is due: there is a legacy list and the collection holds
\* fewer documents than the list has songs
MigrationDue ==
    /\ Len(localStorage) > 0
    /\ Cardinality(DOMAIN store) < Len(localStorage)

\* C16: at startup, when the migration is due, the initial-load flow goes on
\* to create a Remote Store record for each song of the legacy list: after
\* waitForFirebaseInit the flow is in the migration loop and the legacy
\* list is still there for migrateFromLocalStorage to read.
C16_StartupMigratesLegacyList ==
    [][(LoadInitialDataReady /\ MigrationDue) =>
          /\ initPc' = "migrate"
          /\ localStorage' = localStorage
      ]_vars

\* migrateFromLocalStorage is waiting for a create of its loop
MigrationCreates(call) ==
    /\ call.pc = "await"
    /\ call.method = "migrateFromLocalStorage"
    /\ call.phase = "create"

\* C17: migrateFromLocalStorage issues no create when the legacy list is
\* empty or when the collection holds at least as many documents as the
\* legacy list has songs, whichever documents these are: it resolves and
\* the collection is as it was.
C17_MigrationGuardSkips ==
    [][/\ (CallMigrate /\ isInitialized /\ Len(localStorage) = 0) =>
             fb' = Resolved("migrateFromLocalStorage") /\ store' = store
       /\ (MigrateCounted /\ Cardinality(DOMAIN store) >= Len(localStorage)) =>
             fb' = Resolved("migrateFromLocalStorage") /\ store' = store
       /\ (MigrationCreates(fb') /\ ~MigrationCreates(fb)) => MigrationDue
      ]_vars

\* C17 witness: with two legacy songs and two documents in the collection,
\* one of them a different song, the migration resolved without a create
C17_Witness ==
    /\ isInitialized
    /\ fb = Resolved("migrateFromLocalStorage")
    /\ Len(localStorage) = 2
    /\ store = InitialStore
    /\ nextId = InitialNextId
    /\ ops = 1

\* every object in filteredSongs is an element of songs
ElementsOfSongs ==
    /\ Len(elementOf) = Len(filteredSongs)
    /\ \A j \in DOMAIN filteredSongs :
          /\ elementOf[j] \in DOMAIN songs
          /\ filteredSongs[j] = songs[elementOf[j]]
    /\ sameArray => filteredSongs = songs

\* C18: in every reachable state, the states in which a handler is suspended
\* on a Remote Store call included, every element of filteredSongs is the
\* very same object as an element of songs; a step that changes
\* filteredSongs leaves it songs itself or a selection of the objects of
\* songs in the order of songs.
C18_FilteredElementsAreSongs ==
    /\ []ElementsOfSongs
    /\ [][filteredSongs' # filteredSongs =>
             \/ sameArray' /\ filteredSongs' = songs'
             \/ \A i, j \in DOMAIN elementOf' :
                   /\ elementOf'[i] \in DOMAIN songs'
                   /\ i < j => elementOf'[i] < elementOf'[j]
         ]_vars

\* C18 witness: a comment edit has put its song into songs and into a
\* filtered view that holds one of the two songs, and the import handler is
\* suspended on the reading of a file
C18_Witness ==
    /\ report.kind = "commentSuccess"
    /\ ~sameArray
    /\ Len(filteredSongs) = 1
    /\ Len(songs) = 2
    /\ Get(filteredSongs[1], "comments") = <<"B">>
    /\ imp.pc = "reading"

\* the import cannot become a confirmed batch: the file is not read, it has
\* no valid row, every draft matches a song of the catalog, or the user
\* declines the confirmation
NoConfirmedBatch(confirmed) ==
    \/ ~imp.file.readable
    \/ imp.file.drafts = <<>>
    \/ \A i \in DOMAIN imp.file.drafts : \E k \in DOMAIN songs :
          /\ toLowerCase(songs[k].artistName) = toLowerCase(imp.file.drafts[i].artistName)
          /\ toLowerCase(songs[k].songName) = toLowerCase(imp.file.drafts[i].songName)
    \/ ~confirmed

\* C19: an import that ends without a confirmed batch issues no create and
\* leaves songs and filteredSongs as they were; the handler is over and the
\* import button is out of its loading state.
C19_UnconfirmedImportWritesNothing ==
    [][/\ \A confirmed \in BOOLEAN :
             (ImportFileRead(confirmed) /\ NoConfirmedBatch(confirmed)) =>
                 /\ imp' = NoImport
                 /\ "importCsvBtn" \notin loading'
                 /\ report'.kind \in {"importError", "noValidSongs", "allDuplicates", "confirm"}
                 /\ <<store, nextId>>' = <<store, nextId>>
                 /\ <<songs, filteredSongs, sameArray, elementOf>>'
                       = <<songs, filteredSongs, sameArray, elementOf>>
       /\ \A file \in CsvFiles :
             (HandleFileImport(file) /\ ~file.csv) =>
                 /\ imp' = imp
                 /\ report'.kind = "notCsv"
                 /\ <<store, nextId, songs, filteredSongs>>' = <<store, nextId, songs, filteredSongs>>
      ]_vars

\* C19 witness: with the two songs loaded and a file with new songs read,
\* the user has declined the confirmation
C19_Witness ==
    /\ report.kind = "confirm"
    /\ report.n >= 1
    /\ imp = NoImport
    /\ "importCsvBtn" \notin loading
    /\ Len(songs) = 2
    /\ store = InitialStore

\* C20: when the store never becomes ready, the initial-load flow still
\* comes to its end: the failure is shown to the user and the loading
\* indicator of the table is hidden.
C20_InitialLoadTerminates ==
    (~isInitialized) ~> (initPc = "done" /\ "table" \notin loading)

\* the fields of a song the form writes
FormFields == {"artistName", "songName", "state", "type", "youtubeLink"}

\* C21: when the Remote Store acknowledges a comment edit of song X, the
\* stored record of X and the entry X of songs keep their artistName,
\* songName, state, type and youtubeLink: only comments (and updatedAt)
\* change, also when a form edit of X was acknowledged while the comment
\* edit was pending.
C21_CommentEditKeepsFormFields ==
    [][\A c \in comment :
          UpdateCommentUpdated(c) =>
              /\ \A f \in FormFields :
                    Get(store'[c.songId], f) = Get(store[c.songId], f)
              /\ \A i \in DOMAIN songs :
                    Get(songs[i], "id") = c.songId =>
                        \A f \in FormFields : Get(songs'[i], f) = Get(songs[i], f)
      ]_vars

\* the data of a write sets createdAt and updatedAt to the server-timestamp
\* sentinel or leaves them out
SentinelOnly(data) ==
    \A f \in {"createdAt", "updatedAt"} \cap DOMAIN data : data[f] = ServerTimestamp

\* C23: the data of every create and of every update the page sends (form
\* edit, comment edit, import) holds no createdAt or updatedAt other than
\* the server-timestamp sentinel.
C23_TimestampsOnlyFromServer ==
    [][/\ HandleSubmitUpdated => SentinelOnly(updateSongData(submit.formData))
       /\ HandleSubmitAdded => SentinelOnly(addSongData(submit.formData))
       /\ ImportSongAdded => SentinelOnly(addSongData(Head(imp.queue)))
       /\ \A c \in comment :
             UpdateCommentUpdated(c) => SentinelOnly(updateSongData(c.updatedSong))
      ]_vars

\* the entry of songs' under id x is the object value
EntryBecomes(x, value) ==
    \A i \in DOMAIN songs' : Get(songs'[i], "id") = x => songs'[i] = value

\* C22: a form edit and a comment edit of one song are in flight at once;
\* when the second of the two responses arrives, the entry of songs for the
\* song is the value of the operation that response belongs to.
C22_LaterResponseWins ==
    [][/\ (HandleSubmitUpdated /\ comment = {}) =>
             EntryBecomes(submit.id, Spread(submit.formData, [id |-> submit.id]))
       /\ \A c \in comment :
             (UpdateCommentUpdated(c) /\ submit.pc = "idle") =>
                 EntryBecomes(c.songId, c.updatedSong)
      ]_vars

\* the header row of a CSV text, and the field lists of the data rows
\* parseCSV makes a draft of: the rows of four fields or more
HeaderOf(text) == split(text, Newline)[1]

DataRows(text) ==
    LET lines == split(text, Newline)
    IN  SelectSeq([k \in 1..(Len(lines) - 1) |-> parseCSVLine(trim(lines[k + 1]))],
                  LAMBDA values : Len(values) >= 4)

\* the headers of the five-column layout name, artist, genre, state, type
LegacyHeaders == {OriginalHeader, OtherHeader}

\* the import has read and parsed the chosen file
FileParsed == imp.pc = "reading" /\ imp.file.readable

\* C24: the drafts of a file whose header is the five-column layout take
\* state from the 4th field and type from the 5th and have empty comments
\* and link; the drafts of a file with the six-column header take state,
\* type, comments and link from the 3rd, 4th, 5th and 6th field.
C24_LayoutByHeader ==
    FileParsed =>
        LET rows == DataRows(csvFile)
            drafts == imp.file.drafts
        IN  /\ Len(drafts) = Len(rows)
            /\ \A k \in DOMAIN rows :
                  /\ HeaderOf(csvFile) \in LegacyHeaders =>
                        /\ drafts[k].state = mapState(FieldAt(rows[k], 3))
                        /\ drafts[k].type = mapType(FieldAt(rows[k], 4))
                        /\ drafts[k].comments = <<>>
                        /\ drafts[k].youtubeLink = <<>>
                  /\ HeaderOf(csvFile) = NewHeader =>
                        /\ drafts[k].state = mapState(FieldAt(rows[k], 2))
                        /\ drafts[k].type = mapType(FieldAt(rows[k], 3))
                        /\ drafts[k].comments = FieldAt(rows[k], 4)
                        /\ drafts[k].youtubeLink = FieldAt(rows[k], 5)

\* position i of the line lies inside quotes: an odd number of double
\* quotes stands before it
InsideQuotes(line, i) ==
    Cardinality({j \in 1..(i - 1) : line[j] = Quote}) % 2 = 1

\* the positions of the commas outside quotes, and that set with the two
\* ends of the line
Separators(line) ==
    {i \in DOMAIN line : line[i] = Comma /\ ~InsideQuotes(line, i)}

FieldEnds(line) == Separators(line) \cup {0, Len(line) + 1}

\* the text between two neighbouring field ends without its double quotes
FieldBetween(line, from, to) ==
    SelectSeq(SubSeq(line, from + 1, to - 1), LAMBDA c : c # Quote)

\* the lines of a CSV text as parseCSV hands them to parseCSVLine
LinesOf(text) ==
    LET lines == split(text, Newline)
    IN  {trim(lines[k]) : k \in DOMAIN lines}

\* C25: parseCSVLine returns one field more than the line has commas
\* outside quotes; the fields are the pieces of the line between these
\* commas, in order, with the double quotes left out and the commas inside
\* quotes kept.
C25_SplitsAtUnquotedCommas ==
    FileParsed =>
        \A line \in LinesOf(csvFile) :
            LET values == parseCSVLine(line)
                ends == FieldEnds(line)
            IN  /\ Len(values) = 1 + Cardinality(Separators(line))
                /\ \A from \in ends, to \in ends :
                      (from < to /\ ~\E e \in ends : from < e /\ e < to) =>
                          values[1 + Cardinality({e \in ends : 0 < e /\ e <= from})]
                              = FieldBetween(line, from, to)

\* a file with a comma inside a quoted field has been parsed, and the draft
\* of the row holds the comma in its artist name
C25_Witness ==
    /\ FileParsed
    /\ \E line \in LinesOf(csvFile) :
          \E i \in DOMAIN line : line[i] = Comma /\ InsideQuotes(line, i)
    /\ \E k \in DOMAIN imp.file.drafts :
          imp.file.drafts[k].artistName = <<"a", Comma, "b">>

\* the raw values parseCSV may hand to mapState and mapType: the fields of
\* the lines of the text, and the empty string for a field that is missing
RawValues(text) ==
    UNION { {trim(parseCSVLine(line)[k]) : k \in DOMAIN parseCSVLine(line)} :
            line \in LinesOf(text) } \cup {<<>>}

\* C26: mapState returns the raw value when it names a state and
\* 'Por aprobar' otherwise, mapType the raw value when it names a type and
\* 'Lento' otherwise, so the state and the type of every draft parseCSV
\* makes lie inside the two enumerations.
C26_MapsIntoEnumerations ==
    FileParsed =>
        /\ \A raw \in RawValues(csvFile) :
              /\ mapState(raw) \in States
              /\ mapType(raw) \in Types
              /\ \A st \in States : raw = Chars(st) => mapState(raw) = st
              /\ (~\E st \in States : raw = Chars(st)) => mapState(raw) = "Por aprobar"
              /\ \A ty \in Types : raw = Chars(ty) => mapType(raw) = ty
              /\ (~\E ty \in Types : raw = Chars(ty)) => mapType(raw) = "Lento"
        /\ \A k \in DOMAIN imp.file.drafts :
              /\ imp.file.drafts[k].state \in States
              /\ imp.file.drafts[k].type \in Types

\* C27: an import batch has one create in flight, the one of the first
\* candidate not yet settled; the batch starts with the new songs in their
\* order, and only when the create in flight has succeeded or failed does
\* the batch go on, with the create of the candidate that follows.
C27_ImportCreatesOneByOne ==
    [][/\ (imp.pc = "reading" /\ imp'.pc = "adding") =>
             imp'.queue = filterDuplicates(imp.file.drafts, songs)
       /\ (imp.pc = "adding" /\ imp' # imp) =>
             /\ ImportSongAdded \/ ImportSongRejected
             /\ imp'.pc = "adding" => imp'.queue = Tail(imp.queue)
             /\ ImportSongAdded =>
                   /\ DOMAIN store' = DOMAIN store \cup {DocId(nextId)}
                   /\ \A f \in SongFields :
                         Get(store'[DocId(nextId)], f) = Get(Head(imp.queue), f)
       /\ (imp.pc = "adding" /\ imp' = imp) =>
             \A d \in DOMAIN store' \ DOMAIN store :
                 \A f \in SongFields : Get(store'[d], f) = Get(submit.formData, f)
      ]_vars

\* of three candidates the creates of the first two have settled, one
\* succeeded and one failed, and the create of the third is in flight
C27_Witness ==
    /\ imp.pc = "adding"
    /\ imp.new = 3
    /\ Len(imp.queue) = 1
    /\ imp.ok = 1
    /\ imp.queue[1].id = LocalId(3)

\* the text s with each of its double quotes written twice
Doubled(s) ==
    LET quotesUpTo(i) == Cardinality({j \in 1..i : s[j] = Quote})
        at(i) == i + quotesUpTo(i - 1)
    IN  [p \in 1..(Len(s) + quotesUpTo(Len(s))) |->
            s[CHOOSE i \in DOMAIN s : at(i) = p \/ (s[i] = Quote /\ at(i) + 1 = p)]]

\* a field value as the export writes it
Emitted(value) ==
    IF value = Null \/ value = Undefined THEN <<>>
    ELSE IF {Comma, Quote, Newline} \cap {value[i] : i \in DOMAIN value} # {}
    THEN <<Quote>> \o Doubled(value) \o <<Quote>>
    ELSE value

\* the rows of the export of a list of songs
ExportRows(list) ==
    << <<"N", "o", "m", "b", "r", "e", ",", "A", "r", "t", "i", "s", "t", "a", ",",
         "E", "s", "t", "a", "d", "o", ",", "T", "i", "p", "o", ",",
         "C", "o", "m", "e", "n", "t", "a", "r", "i", "o", "s", ",",
         "Y", "o", "u", "T", "u", "b", "e">> >>
    \o [k \in DOMAIN list |->
           Emitted(list[k].songName) \o <<Comma>> \o Emitted(list[k].artistName)
           \o <<Comma>> \o Emitted(Chars(list[k].state))
           \o <<Comma>> \o Emitted(Chars(list[k].type))
           \o <<Comma>> \o Emitted(Get(list[k], "comments"))
           \o <<Comma>> \o Emitted(Get(list[k], "youtubeLink"))]

\* C28: the file downloadCSV writes is the header row followed by one row
\* per song of filteredSongs, in order, the rows separated by line breaks;
\* a value with a comma, a double quote or a line break stands in double
\* quotes with its double quotes doubled, any other value stands as it is,
\* and a missing value is empty.
C28_ExportFormat ==
    [][(DownloadCSV /\ filteredSongs # <<>>) =>
          LET rows == ExportRows(filteredSongs)
          IN  /\ Len(rows) = 1 + Len(filteredSongs)
              /\ csvFile' = join(rows, Newline)
      ]_vars

\* a file has been written for a list with a song whose name holds a
\* double quote and whose comments are missing
C28_Witness ==
    /\ csvFile # Null
    /\ \E i \in DOMAIN csvFile :
          /\ i + 5 <= Len(csvFile)
          /\ SubSeq(csvFile, i, i + 5) = <<Quote, "a", Quote, Quote, "b", Quote>>
    /\ \E k \in DOMAIN filteredSongs : "comments" \notin DOMAIN filteredSongs[k]

\* two songs have the same artist name and song name, letter case aside
SamePair(a, b) ==
    /\ toLowerCase(a.artistName) = toLowerCase(b.artistName)
    /\ toLowerCase(a.songName) = toLowerCase(b.songName)

\* C29: when a confirmed import starts its batch, candidates of the file
\* that have the same artist name and song name and match no song of the
\* catalog are all in the batch; and each create of the batch that succeeds
\* adds a record of its own, also when a record of an earlier candidate
\* has the same names.
C29_NoDeduplicationWithinBatch ==
    [][/\ (imp.pc = "reading" /\ imp'.pc = "adding") =>
             \A k \in DOMAIN imp.file.drafts :
                 (~\E e \in DOMAIN songs : SamePair(songs[e], imp.file.drafts[k])) =>
                     \E q \in DOMAIN imp'.queue : imp'.queue[q] = imp.file.drafts[k]
       /\ ImportSongAdded =>
             /\ Cardinality(DOMAIN store') = Cardinality(DOMAIN store) + 1
             /\ \E d \in DOMAIN store' \ DOMAIN store :
                   /\ store'[d].artistName = Head(imp.queue).artistName
                   /\ store'[d].songName = Head(imp.queue).songName
      ]_vars

\* an import has created two records with the same artist name and song
\* name from two rows of one file, and has completed
C29_Witness ==
    /\ report.kind = "imported"
    /\ imp.pc = "idle"
    /\ \E d1 \in DOMAIN store, d2 \in DOMAIN store :
          /\ d1 # d2
          /\ d1 \notin DOMAIN InitialStore
          /\ d2 \notin DOMAIN InitialStore
          /\ SamePair(store[d1], store[d2])

\* C30: a button is in the loading state only while the handler that put
\* it there is suspended on a call: when handleSubmit, confirmDelete,
\* handleFileImport, downloadCSV or generatePDF has finished, by success,
\* failure, early return or thrown error, its button is out of it again.
C30_ButtonLoadingEnds ==
    /\ "saveSongBtn" \in loading => submit.pc # "idle"
    /\ "deleteConfirmBtn" \in loading => del.pc # "idle"
    /\ "importCsvBtn" \in loading => imp.pc # "idle"
    /\ "downloadCsvBtn" \notin loading
    /\ "downloadPdfBtn" \notin loading

\* handleSubmit has ended in its catch block after the Remote Store call
\* failed, downloadCSV has written a file, and no button is loading
C30_Witness ==
    /\ report = Report("saveError", RemoteError, 0)
    /\ submit.pc = "idle"
    /\ csvFile # Null
    /\ initPc = "done"
    /\ loading = {}

=============================================================================
